---- MODULE Spec2Model ----
(***************************************************************************)
(* The concurrent dependency traverser of packlet (src/core/traverser.rs). *)
(*                                                                         *)
(* traverse() polls one tree of futures: every call of traverse_recursive  *)
(* is a future that its parent's try_join_all polls, so an exploration     *)
(* runs from one .await to the next without interruption, and any other    *)
(* exploration may run in between.  Each action below is one such stretch  *)
(* of one exploration.  A future that returns resumes its parent in the    *)
(* same poll (try_join_all has no await of its own), which is Return.      *)
(***************************************************************************)
EXTENDS Integers, Sequences, FiniteSets, TLC

\* Bounds of the configurations drawn in Init: with_concurrency_limit,
\* with_max_files, with_max_depth and CircuitBreaker::new(max_total,
\* max_consecutive).  DependencyTraverser::new passes (1000, 50) to the breaker;
\* the limits drawn here are smaller so that a trip is reached with few files.
MaxPermits == 3
MaxFiles == 5
MaxDepth == 3
MaxConsecutive == 2
MaxTotal == 3

\* check_health runs every 100th file (traverser.rs:405).
HealthEvery == 100

\* "lnk" is a symbolic link where a filesystem says so (Tree.link).  A file f
\* has the absolute path /root.../dir[f].../f: the project directory, the
\* directories below it, and the file name (Tree.root, Tree.dir).
Files == {"a", "b", "c", "d", "logo", "data", "lnk"}

VARIABLES
    fs,                  \* the filesystem read by the traversal (never changes)
    cfg,                 \* the builder settings of the DependencyTraverser
    visited,             \* DependencyTraverser.visited
    in_progress,         \* DependencyTraverser.in_progress
    file_count,          \* DependencyTraverser.file_count
    semaphore,           \* permits available in DependencyTraverser.semaphore
    error_count,         \* CircuitBreaker.error_count
    consecutive_errors,  \* CircuitBreaker.consecutive_errors
    adj_list,            \* DependencyGraph.adj_list (<< >> = no key)
    circular_deps,       \* DependencyGraph.circular_deps
    assets,              \* DependencyGraph.assets
    expl,                \* the traverse_recursive futures, in creation order
    result,              \* what traverse() returned: "running", "Ok", "Err"
    call,                \* a call of one function of the resolver or of the
                         \* parsers, examined by itself: its arguments, its
                         \* position and its result ("traverse" during a
                         \* traversal)
    hist                 \* history of the run (observations only):
                         \*   explored[f]  times f was inserted into visited
                         \*   read[f]      calls of read_file(f)
                         \*   again        paths that the visited check stopped
                         \*   met          paths reached while in in_progress
                         \*   errors       the Err values raised, by kind
                         \*   guards       the guards that stopped an exploration
                         \*   at[f]        depths at which f was explored

traversal == <<fs, cfg, visited, in_progress, file_count, semaphore, error_count,
               consecutive_errors, adj_list, circular_deps, assets, expl, result,
               hist>>

vars == <<traversal, call>>

----------------------------------------------------------------------------
\* Filesystems.  An import site is what JsResolver::resolve returns for it:
\* "local" (Some, is_asset = false), "asset" (Some, is_asset = true),
\* "none" (Ok(None): external or unresolved) or "error" (Err).  The path `to`
\* is the file that the search found, made absolute by absolutize()
\* (resolver.rs:37, 68, 90), which works on the text of the path and follows
\* no symbolic link.

Local(t) == [to |-> t, kind |-> "local"]
Asset(t) == [to |-> t, kind |-> "asset"]
Unresolved == [to |-> "a", kind |-> "none"]
Failing == [to |-> "a", kind |-> "error"]

NoImports == [f \in Files |-> << >>]

Tree(entry, imports) ==
    [entry |-> entry, imports |-> imports @@ NoImports,
     unreadable |-> {}, unparsable |-> {}, unsupported |-> {"logo", "data"},
     excluded |-> {}, missing |-> {}, link |-> [f \in Files |-> f],
     root |-> <<"home", "p">>, dir |-> [f \in Files |-> << >>]]

Chain == Tree("a", "a" :> <<Local("b")>> @@ "b" :> <<Local("c")>>)

Cycle == Tree("a", "a" :> <<Local("b")>> @@ "b" :> <<Local("a")>>)

Diamond == Tree("a", "a" :> <<Local("b"), Local("c")>>
                  @@ "b" :> <<Local("d")>> @@ "c" :> <<Local("d")>>)

\* './logo.svg' and './data.json' are assets by their extension; './data' is
\* found by the extension search (resolver.rs:251, "json") and is no asset.
WithAssets == Tree("a", "a" :> <<Asset("logo"), Local("b"), Asset("data")>>
                     @@ "b" :> <<Local("data"), Unresolved>>)

Fan == Tree("a", "a" :> <<Local("b"), Local("c"), Local("b")>>
              @@ "b" :> <<Local("d"), Unresolved, Local("c")>>
              @@ "c" :> <<Local("d"), Local("a")>>)

Broken == [Tree("a", "a" :> <<Local("b"), Local("c")>> @@ "c" :> <<Local("d")>>)
             EXCEPT !.unreadable = {"b"}, !.unparsable = {"d"}]

BadConfig == Tree("a", "a" :> <<Local("b"), Local("c")>>
                    @@ "b" :> <<Failing>> @@ "c" :> <<Asset("logo"), Local("d")>>)

Excluding == [Tree("a", "a" :> <<Local("b"), Local("c")>> @@ "b" :> <<Local("d")>>)
                EXCEPT !.excluded = {"b"}]

NoEntry == [Tree("a", NoImports) EXCEPT !.missing = {"a"}]

UnreadableEntry == [Tree("a", NoImports) EXCEPT !.unreadable = {"a"}]

\* The project is checked out under a directory named build.
UnderBuild == [Chain EXCEPT !.root = <<"home", "build", "p">>]

\* './lnk' is found as lnk.ts, a symbolic link to dist/b.ts.
LinkedIntoDist == [Tree("a", "a" :> <<Local("lnk")>> @@ "b" :> <<Local("c")>>)
                     EXCEPT !.link["lnk"] = "b", !.dir["b"] = <<"dist">>]

\* b lies 15 directories below the entry's directory, c lies 14 below.
Deep == [Tree("a", "a" :> <<Local("b"), Local("c")>>)
           EXCEPT !.dir["b"] = [i \in 1..15 |-> "s"],
                  !.dir["c"] = [i \in 1..14 |-> "s"]]

\* './lnk' is found as lnk.ts, a symbolic link to b.ts.
Symlinked == [Tree("a", "a" :> <<Local("lnk")>> @@ "b" :> <<Local("c")>>)
                EXCEPT !.link["lnk"] = "b"]

FileSystems == {Chain, Cycle, Diamond, WithAssets, Fan, Broken, BadConfig,
                Excluding, NoEntry, UnreadableEntry, Symlinked, UnderBuild,
                LinkedIntoDist, Deep}

----------------------------------------------------------------------------
\* The injected capabilities, as the traverser sees them.

\* TokioFileSystem::canonicalize: the path with its symbolic links followed.
canonicalize(f) == fs.link[f]

\* Path::components of the absolute path of f (its Normal components).
components(f) == fs.root \o fs.dir[f] \o <<f>>

\* Path::parent, in components.
path_parent(path) == SubSeq(path, 1, Len(path) - 1)

\* The directory names of DEFAULT_EXCLUDES ('**/name/**'); no file of the
\* filesystems is named *.test.*, *.spec.* or *.stories.*.
DEFAULT_EXCLUDES ==
    {"node_modules", ".next", "dist", "build", ".cache", "coverage", "test",
     "tests", "__tests__", "__mocks__", "storybook-static", ".storybook",
     "public", ".git", ".svn", ".hg", "vendor", "tmp", "temp"}

exclude_dirs ==
    {"node_modules", ".next", "dist", "build", "coverage", "__tests__",
     "__mocks__", ".git"}

\* should_exclude_path(path, exclude_patterns): the user's patterns (excluded
\* holds the paths that they match), the default patterns, the directory names.
should_exclude_path(f) ==
    \/ f \in fs.excluded
    \/ \E i \in DOMAIN path_parent(components(f)) : components(f)[i] \in DEFAULT_EXCLUDES
    \/ \E i \in DOMAIN components(f) : components(f)[i] \in exclude_dirs

can_parse_file(f) == f \notin fs.unsupported

parse_imports(f) == fs.imports[f]

----------------------------------------------------------------------------
\* The tree of futures.

NewTask(file, parent, depth) ==
    [file |-> file, parent |-> parent, depth |-> depth, pc |-> "start",
     canonical |-> file, idx |-> 0, permit |-> FALSE, tasks |-> << >>]

Children(x, p) == {k \in DOMAIN x : x[k].parent = p}

RECURSIVE Descendants(_, _)
Descendants(x, p) ==
    LET c == Children(x, p)
    IN  c \cup UNION {Descendants(x, k) : k \in c}

Live(x, k) == x[k].pc \notin {"done", "dropped"}

\* The part of the state that a returning future changes.
Now == [expl |-> expl, in_progress |-> in_progress, semaphore |-> semaphore,
        result |-> result]

\* Dropping futures without releasing their permits.
DropKeepsPermits(S, ks) ==
    LET live == {k \in ks : Live(S.expl, k)}
    IN  [S EXCEPT
           !.expl = [k \in DOMAIN S.expl |->
                       IF k \in live
                       THEN [S.expl[k] EXCEPT !.pc = "dropped", !.permit = FALSE]
                       ELSE S.expl[k]]]

\* Dropping futures releases their permits (the _permit guards) and nothing else.
Drop(S, ks) ==
    LET live == {k \in ks : Live(S.expl, k)}
    IN  [S EXCEPT
           !.expl = [k \in DOMAIN S.expl |->
                       IF k \in live
                       THEN [S.expl[k] EXCEPT !.pc = "dropped", !.permit = FALSE]
                       ELSE S.expl[k]],
           !.semaphore = @ + Cardinality({k \in live : S.expl[k].permit})]

\* Future e returns Ok(()) or Err: its permit is released, and its parent's
\* try_join_all is polled: the first Err drops the other children and ends the
\* join, the last Ok ends the join; either way the parent goes on (the Err is
\* logged, traverser.rs:497-499), removes itself from in_progress and returns
\* Ok(()) in turn.
RECURSIVE Return(_, _, _)
Return(S, e, ok) ==
    LET t == S.expl[e]
        p == t.parent
        S1 == [S EXCEPT !.expl[e].pc = "done", !.expl[e].permit = FALSE,
                        !.semaphore = @ + (IF t.permit THEN 1 ELSE 0)]
    IN  IF p = 0
        THEN [S1 EXCEPT !.result = IF ok THEN "Ok" ELSE "Err"]
        ELSE IF ~ok
        THEN LET S2 == Drop(S1, Descendants(S1.expl, p))
             IN  Return([S2 EXCEPT !.in_progress = @ \ {S2.expl[p].canonical}],
                        p, TRUE)
        ELSE IF \A k \in Children(S1.expl, p) : S1.expl[k].pc = "done"
        THEN Return([S1 EXCEPT !.in_progress = @ \ {S1.expl[p].canonical}], p, TRUE)
        ELSE S1

\* try_join_all(tasks) (traverser.rs:495): with no task it is ready at once;
\* otherwise the children start and the parent waits for them.
Join(S, e) ==
    LET t == S.expl[e]
        n == Len(S.expl)
    IN  IF t.tasks = << >>
        THEN Return([S EXCEPT !.in_progress = @ \ {t.canonical}], e, TRUE)
        ELSE [S EXCEPT !.expl =
                [k \in 1..(n + Len(t.tasks)) |->
                    IF k <= n
                    THEN IF k = e THEN [t EXCEPT !.pc = "join"] ELSE S.expl[k]
                    ELSE NewTask(t.tasks[k - n], e, t.depth + 1)]]

\* Loop with the last import left out.
LoopStopsEarly(S, e, i) ==
    IF i < Len(parse_imports(S.expl[e].canonical))
    THEN [S EXCEPT !.expl[e].pc = "resolve", !.expl[e].idx = i]
    ELSE Join(S, e)

\* The for loop reaches import i of e (traverser.rs:463).
Loop(S, e, i) ==
    IF i <= Len(parse_imports(S.expl[e].canonical))
    THEN [S EXCEPT !.expl[e].pc = "resolve", !.expl[e].idx = i]
    ELSE Join(S, e)

Set(S) ==
    /\ expl' = S.expl
    /\ in_progress' = S.in_progress
    /\ semaphore' = S.semaphore
    /\ result' = S.result

Note(field, v) == hist' = [hist EXCEPT ![field] = v]

----------------------------------------------------------------------------
\* CircuitBreaker::record_error: TRUE when it returns Err.
record_error_trips(total, consecutive) ==
    \/ consecutive >= cfg.max_consecutive_errors
    \/ total >= cfg.max_total_errors

\* record_success leaving the counter as it is.
record_success_kept(consecutive) == consecutive

\* CircuitBreaker::record_success: the consecutive counter after it.
record_success(consecutive) == 0

\* The depth guard letting depth = max_depth through.
depth_reached_late(depth) == depth > cfg.max_depth

\* traverser.rs:360: the depth guard.
depth_reached(depth) == depth >= cfg.max_depth

\* DependencyGraph::new(entry.to_path_buf()): the entry as it was passed.
entry_point == fs.entry

\* Path::strip_prefix(base): what follows base in path (Some), None when path
\* does not start with base.
strip_prefix(path, base) ==
    IF Len(base) <= Len(path) /\ SubSeq(path, 1, Len(base)) = base
    THEN <<SubSeq(path, Len(base) + 1, Len(path))>>
    ELSE << >>

\* PathScore::from_path(path, entry); an absolute path has no ParentDir
\* component.
from_path(f, entry) ==
    LET path == components(f)
        relative == strip_prefix(path, path_parent(components(entry)))
    IN  [depth |-> IF relative = << >> THEN 0 ELSE Len(relative[1]),
         node_modules_count |->
             Cardinality({i \in DOMAIN path : path[i] = "node_modules"}),
         parent_traversals |-> 0,
         total_components |-> Len(path)]

\* PathScore::should_skip.
should_skip(score) ==
    \/ score.parent_traversals > 3
    \/ score.node_modules_count > 0
    \/ score.total_components > 20
    \/ score.depth > 15

----------------------------------------------------------------------------
\* DependencyTraverser::new and the start of traverse, for a given filesystem
\* and configuration.
Constructed ==
    /\ visited = {}
    /\ in_progress = {}
    /\ file_count = 0
    /\ semaphore = cfg.permits
    /\ error_count = 0
    /\ consecutive_errors = 0
    /\ adj_list = [f \in Files |-> << >>]
    /\ circular_deps = {}
    /\ assets = {}
    /\ expl = <<NewTask(fs.entry, 0, 0)>>
    /\ result = "running"
    /\ hist = [explored |-> [f \in Files |-> 0], read |-> [f \in Files |-> 0],
               again |-> {}, met |-> {}, errors |-> {}, guards |-> {},
               at |-> [f \in Files |-> {}]]

Init ==
    /\ fs \in FileSystems
    /\ cfg \in [max_depth : 0..MaxDepth, max_files : 1..MaxFiles,
                permits : 1..MaxPermits,
                max_consecutive_errors : 1..MaxConsecutive,
                max_total_errors : 1..MaxTotal]
    /\ Constructed
    /\ call = "traverse"

\* traverser.rs:360-407: the guards, up to the await of the semaphore.  The
\* depth and exclusion checks read only the arguments, so the await of the
\* graph lock at 371 is not a step of its own.
Guards(e) ==
    /\ expl[e].pc = "start"
    /\ LET t == expl[e]
           current_count == file_count
       IN  IF depth_reached(t.depth)
           THEN /\ Set(Return(Now, e, TRUE))
                /\ Note("guards", hist.guards \cup {"depth"})
                /\ UNCHANGED file_count
           ELSE IF should_exclude_path(t.file)
           THEN /\ Set(Return(Now, e, TRUE))
                /\ Note("guards", hist.guards \cup {"exclude"})
                /\ UNCHANGED file_count
           ELSE IF should_skip(from_path(t.file, entry_point))
           THEN /\ Set(Return(Now, e, TRUE))
                /\ Note("guards", hist.guards \cup {"skip"})
                /\ UNCHANGED file_count
           ELSE /\ file_count' = file_count + 1
                /\ IF current_count >= cfg.max_files
                   THEN /\ Set(Return(Now, e, FALSE))
                        /\ Note("errors", hist.errors \cup {"file_limit"})
                   ELSE \E stuck \in IF current_count > 0
                                        /\ current_count % HealthEvery = 0
                                     THEN BOOLEAN ELSE {FALSE} :
                          IF stuck
                          THEN /\ Set(Return(Now, e, FALSE))
                               /\ Note("errors", hist.errors \cup {"stuck"})
                          ELSE /\ Set([Now EXCEPT !.expl[e].pc = "acquire"])
                               /\ UNCHANGED hist
    /\ UNCHANGED <<call, fs, cfg, visited, error_count, consecutive_errors, adj_list,
                   circular_deps, assets>>

\* traverser.rs:409: a permit is granted; canonicalize is awaited.
Acquire(e) ==
    /\ expl[e].pc = "acquire"
    /\ semaphore > 0
    /\ semaphore' = semaphore - 1
    /\ expl' = [expl EXCEPT ![e].pc = "canonicalize", ![e].permit = TRUE]
    /\ UNCHANGED <<call, fs, cfg, visited, in_progress, file_count, error_count,
                   consecutive_errors, adj_list, circular_deps, assets, result, hist>>

\* seen without the visited check.
seen_never(c) == FALSE

\* traverser.rs:412: the visited check.
seen(c) == c \in visited

\* traverser.rs:411-431: canonicalize returned; the visited and in_progress
\* checks, the two inserts and can_parse_file follow without an await.
Canonicalize(e) ==
    /\ expl[e].pc = "canonicalize"
    /\ LET t == expl[e]
           canonical == canonicalize(t.file)
           reached == IF canonical \in in_progress THEN {canonical} ELSE {}
       IN  IF t.file \in fs.missing
           THEN /\ Set(Return(Now, e, FALSE))
                /\ Note("errors", hist.errors \cup {"canonicalize"})
                /\ UNCHANGED <<visited, circular_deps>>
           ELSE IF seen(canonical)
           THEN /\ Set(Return(Now, e, TRUE))
                /\ hist' = [hist EXCEPT !.again = @ \cup {canonical},
                                        !.met = @ \cup reached]
                /\ UNCHANGED <<visited, circular_deps>>
           ELSE IF canonical \in in_progress
           THEN /\ circular_deps' = circular_deps \cup {canonical}
                /\ Set(Return(Now, e, TRUE))
                /\ Note("met", hist.met \cup reached)
                /\ UNCHANGED visited
           ELSE /\ visited' = visited \cup {canonical}
                /\ hist' = [hist EXCEPT !.explored[canonical] = @ + 1,
                                        !.at[canonical] = @ \cup {t.depth}]
                /\ UNCHANGED circular_deps
                /\ IF can_parse_file(canonical)
                   THEN Set([Now EXCEPT !.expl[e].pc = "read",
                                        !.expl[e].canonical = canonical,
                                        !.in_progress = @ \cup {canonical}])
                   ELSE Set(Return([Now EXCEPT !.expl[e].canonical = canonical],
                                   e, TRUE))
    /\ UNCHANGED <<call, fs, cfg, file_count, error_count, consecutive_errors, adj_list,
                   assets>>

\* The failing exploration returning without in_progress.remove.
recover_in_progress(S, e) == Return(S, e, TRUE)

\* traverser.rs:441-442 and 454-455: record_error returned Ok; the exploration
\* leaves in_progress and returns Ok(()).
recover(S, e) ==
    Return([S EXCEPT !.in_progress = @ \ {S.expl[e].canonical}], e, TRUE)

\* traverser.rs:438-443 and 451-456: a read or parse failure of the file of e.
Failure(e) ==
    LET total == error_count + 1
        consecutive == consecutive_errors + 1
    IN  /\ error_count' = total
        /\ consecutive_errors' = consecutive
        /\ IF record_error_trips(total, consecutive)
           THEN Set(Return(Now, e, FALSE))
           ELSE Set(recover(Now, e))

\* traverser.rs:433-446: read_file returned; parse_imports is awaited.
Read(e) ==
    /\ expl[e].pc = "read"
    /\ LET canonical == expl[e].canonical
           count == [hist.read EXCEPT ![canonical] = @ + 1]
       IN  IF canonical \notin fs.unreadable
           THEN /\ consecutive_errors' = record_success(consecutive_errors)
                /\ expl' = [expl EXCEPT ![e].pc = "parse"]
                /\ hist' = [hist EXCEPT !.read = count]
                /\ UNCHANGED <<error_count, in_progress, semaphore, result>>
           ELSE /\ Failure(e)
                /\ hist' = [hist EXCEPT !.read = count,
                              !.errors = IF record_error_trips(error_count + 1,
                                                               consecutive_errors + 1)
                                         THEN @ \cup {"breaker"} ELSE @]
    /\ UNCHANGED <<call, fs, cfg, visited, file_count, adj_list, circular_deps, assets>>

\* traverser.rs:446-466: parse_imports returned; the first import is resolved.
Parse(e) ==
    /\ expl[e].pc = "parse"
    /\ IF expl[e].canonical \notin fs.unparsable
       THEN /\ consecutive_errors' = record_success(consecutive_errors)
            /\ Set(Loop(Now, e, 1))
            /\ UNCHANGED <<error_count, hist>>
       ELSE /\ Failure(e)
            /\ Note("errors", IF record_error_trips(error_count + 1,
                                                    consecutive_errors + 1)
                              THEN hist.errors \cup {"breaker"} ELSE hist.errors)
    /\ UNCHANGED <<call, fs, cfg, visited, file_count, adj_list, circular_deps, assets>>

\* add_edge inserting at the front.
add_edge_front(list, to, site) == <<[to |-> to, site |-> site]>> \o list

\* DependencyGraph::add_edge: push at the end of the list under `from`.
add_edge(list, to, site) == Append(list, [to |-> to, site |-> site])

\* traverser.rs:464-490: resolve_import returned for import idx of e; the edge
\* is added and the child future is pushed, or add_asset awaits the graph lock.
Resolve(e) ==
    /\ expl[e].pc = "resolve"
    /\ LET t == expl[e]
           i == t.idx
           import == parse_imports(t.canonical)[i]
       IN  CASE import.kind = "error" ->
                  /\ Set(Return(Now, e, FALSE))
                  /\ Note("errors", hist.errors \cup {"resolve"})
                  /\ UNCHANGED adj_list
             [] import.kind = "none" ->
                  /\ Set(Loop(Now, e, i + 1))
                  /\ UNCHANGED <<adj_list, hist>>
             [] import.kind = "asset" ->
                  /\ adj_list' = [adj_list EXCEPT ![t.canonical] =
                                    add_edge(@, import.to, i)]
                  /\ expl' = [expl EXCEPT ![e].pc = "add_asset"]
                  /\ UNCHANGED <<in_progress, semaphore, result, hist>>
             [] import.kind = "local" ->
                  /\ adj_list' = [adj_list EXCEPT ![t.canonical] =
                                    add_edge(@, import.to, i)]
                  /\ Set(Loop([Now EXCEPT !.expl[e].tasks = Append(@, import.to)],
                              e, i + 1))
                  /\ UNCHANGED hist
    /\ UNCHANGED <<call, fs, cfg, visited, file_count, error_count, consecutive_errors,
                   circular_deps, assets>>

\* traverser.rs:475-481: add_asset, then the next import.
AddAsset(e) ==
    /\ expl[e].pc = "add_asset"
    /\ LET t == expl[e]
       IN  /\ assets' = assets \cup {parse_imports(t.canonical)[t.idx].to}
           /\ Set(Loop(Now, e, t.idx + 1))
    /\ UNCHANGED <<call, fs, cfg, visited, file_count, error_count, consecutive_errors,
                   adj_list, circular_deps, hist>>

Next ==
    \/ \E e \in DOMAIN expl : Guards(e)
    \/ \E e \in DOMAIN expl : Acquire(e)
    \/ \E e \in DOMAIN expl : Canonicalize(e)
    \/ \E e \in DOMAIN expl : Read(e)
    \/ \E e \in DOMAIN expl : Parse(e)
    \/ \E e \in DOMAIN expl : Resolve(e)
    \/ \E e \in DOMAIN expl : AddAsset(e)

Spec == Init /\ [][Next]_vars

----------------------------------------------------------------------------
\* What the filesystem says the graph should hold.

IsEdge(import) == import.kind \in {"local", "asset"}

\* The resolved local imports of f, in the order of its import sites.
RECURSIVE EdgesUpTo(_, _)
EdgesUpTo(f, n) ==
    IF n = 0 THEN << >>
    ELSE LET import == fs.imports[f][n]
         IN  IF IsEdge(import)
             THEN Append(EdgesUpTo(f, n - 1), [to |-> import.to, site |-> n])
             ELSE EdgesUpTo(f, n - 1)

ExpectedEdges(f) == EdgesUpTo(f, Len(fs.imports[f]))

LocalTargets(f) ==
    {canonicalize(fs.imports[f][i].to) :
        i \in {j \in DOMAIN fs.imports[f] : fs.imports[f][j].kind = "local"}}

AssetTargets(f) ==
    {fs.imports[f][i].to : i \in {j \in DOMAIN fs.imports[f] :
                                    fs.imports[f][j].kind = "asset"}}

Explorable(f) ==
    f \notin fs.unsupported \cup fs.unreadable \cup fs.unparsable \cup fs.missing

\* The files reachable from the entry over local non-asset imports.
RECURSIVE Closure(_)
Closure(S) ==
    LET T == S \cup UNION {LocalTargets(f) : f \in {g \in S : Explorable(g)}}
    IN  IF T = S THEN S ELSE Closure(T)

Reachable == Closure({canonicalize(fs.entry)})

Acyclic == \A f \in Files : f \notin Closure(LocalTargets(f)) \/ ~Explorable(f)

Returned == result # "running"

Undisturbed == hist.guards = {} /\ hist.errors = {} /\ error_count = 0

Scheduled == {expl[k].file : k \in DOMAIN expl \ {1}}
             \cup UNION {{expl[k].tasks[i] : i \in DOMAIN expl[k].tasks} :
                           k \in DOMAIN expl}

----------------------------------------------------------------------------
\* C1: every call of traverse eventually returns: while it has not returned,
\* some exploration can take a step (no state has every pending exploration
\* blocked).
C1_Terminates == Returned \/ ENABLED Next

\* C2: each canonical path is inserted into visited and explored by at most one
\* exploration; an exploration that reaches a path already in visited stops
\* without reading the file, so no file is read twice or gets its edges twice.
C2_ExploredOnce ==
    \A f \in Files :
        /\ hist.explored[f] <= 1
        /\ hist.read[f] <= hist.explored[f]
        /\ Len(adj_list[f]) <= Len(ExpectedEdges(f))
        /\ Cardinality({k \in DOMAIN expl :
                          /\ expl[k].pc \in {"read", "parse", "resolve", "add_asset",
                                             "join"}
                          /\ expl[k].canonical = f}) <= 1

\* C2 witness: a second exploration reached "d" of the diamond, was stopped by
\* the visited check, and "d" was read once.
C2_Witness ==
    /\ fs = Diamond
    /\ "d" \in hist.again
    /\ hist.read["d"] = 1
    /\ result = "Ok"

\* C3: for the two-file cycle traversed from a, when traverse returns (no guard
\* and no error having interfered) both files were explored exactly once, the
\* graph has exactly the edges a->b and b->a, and circular_deps contains a.
C3_CycleMarked ==
    (fs = Cycle /\ result = "Ok" /\ Undisturbed) =>
        /\ hist.explored["a"] = 1 /\ hist.explored["b"] = 1
        /\ adj_list["a"] = <<[to |-> "b", site |-> 1]>>
        /\ adj_list["b"] = <<[to |-> "a", site |-> 1]>>
        /\ "a" \in circular_deps

\* C4: a path is in the cycle set iff some exploration reached it while it was
\* in in_progress.
C4_CycleSetIff == circular_deps = hist.met

\* C5: whenever the file counter reaches max_files in an exploration, traverse
\* returns an error.
C5_FileLimitFatal == ("file_limit" \in hist.errors /\ Returned) => result = "Err"

\* C6: whenever record_error trips the circuit breaker in an exploration,
\* traverse returns an error.
C6_BreakerFatal == ("breaker" \in hist.errors /\ Returned) => result = "Err"

\* C7: if traverse returns Ok, every visited file that is parseable and readable
\* has all its resolved local imports as edges, and every local non-asset
\* target that no guard rejects has been explored.
C7_FullyPopulated ==
    result = "Ok" =>
        \A f \in visited :
            Explorable(f) =>
                /\ adj_list[f] = ExpectedEdges(f)
                /\ \A t \in LocalTargets(f) :
                       (hist.guards = {} /\ ~should_exclude_path(t))
                           => t \in visited

\* C8: when no error occurs and no guard triggers, the returned graph is the
\* reachable closure: the visited files are the reachable ones, each has exactly
\* its resolved local imports as edges (one per import site, in order), files
\* out of reach have none, the asset set holds the asset targets of the
\* reachable files, and the cycle set is empty when the imports are acyclic.
C8_ReachableClosure ==
    (result = "Ok" /\ Undisturbed) =>
        /\ visited = Reachable
        /\ \A f \in Files :
               adj_list[f] = IF f \in Reachable THEN ExpectedEdges(f) ELSE << >>
        /\ assets = UNION {AssetTargets(f) : f \in Reachable}
        /\ Acyclic => circular_deps = {}

\* C8 witness: the chain a->b->c was traversed undisturbed: three nodes, two
\* edges.
C8_Witness ==
    /\ fs = Chain /\ result = "Ok" /\ Undisturbed
    /\ visited = {"a", "b", "c"}
    /\ Len(adj_list["a"]) + Len(adj_list["b"]) + Len(adj_list["c"]) = 2

\* C9: the edges stored under a source are in the order of its import sites.
C9_SourceOrder ==
    \A f \in Files : \A i, j \in DOMAIN adj_list[f] :
        i < j => adj_list[f][i].site < adj_list[f][j].site

\* C9 witness: b and c of Fan are both between their first and their last edge,
\* and a already has its three edges.
C9_Witness ==
    /\ fs = Fan
    /\ Len(adj_list["a"]) = 3
    /\ Len(adj_list["b"]) = 1 /\ Len(adj_list["c"]) = 1
    /\ \E k \in DOMAIN expl : expl[k].canonical = "b" /\ expl[k].pc = "resolve"
    /\ \E k \in DOMAIN expl : expl[k].canonical = "c" /\ expl[k].pc = "resolve"

\* C10: in the graph that traverse returns, every edge whose import resolved as
\* a local asset has its target in the asset set, and the target was never
\* read, never scheduled for exploration and has no outgoing edges.
C10_AssetLeaves ==
    Returned =>
        \A u \in Files : \A i \in DOMAIN adj_list[u] :
            LET v == adj_list[u][i].to
            IN  fs.imports[u][adj_list[u][i].site].kind = "asset" =>
                    /\ v \in assets
                    /\ hist.read[v] = 0
                    /\ v \notin Scheduled
                    /\ adj_list[v] = << >>

\* The positions of an exploration that lie behind its guards.
Exploring == {"acquire", "canonicalize", "read", "parse", "resolve", "add_asset",
              "join"}

\* C11: max_depth bounds exploration: no exploration at a depth >= max_depth
\* gets past the depth guard, so every file that was read, and every source
\* key of the graph, belongs to an exploration at a depth < max_depth; with
\* max_depth = 0 nothing is visited or read and the graph has no edges.
C11_DepthBound ==
    /\ \A k \in DOMAIN expl :
           expl[k].pc \in Exploring => expl[k].depth < cfg.max_depth
    /\ \A f \in Files :
           (hist.read[f] > 0 \/ adj_list[f] # << >>) =>
               /\ hist.at[f] # {}
               /\ \A d \in hist.at[f] : d < cfg.max_depth
    /\ cfg.max_depth = 0 =>
           /\ visited = {} /\ assets = {}
           /\ \A f \in Files : adj_list[f] = << >> /\ hist.read[f] = 0

\* C11 witness: with max_depth = 2 the chain was traversed to the end: a and b
\* were read, the exploration of c was stopped by the depth guard.
C11_Witness ==
    /\ fs = Chain /\ cfg.max_depth = 2 /\ result = "Ok"
    /\ hist.guards = {"depth"}
    /\ hist.read["a"] = 1 /\ hist.read["b"] = 1 /\ hist.read["c"] = 0

\* C12: in the returned graph every key of the adjacency mapping is the entry
\* point of the graph or the target of an edge stored under another key.
C12_KeysAreNodes ==
    Returned =>
        \A f \in Files :
            adj_list[f] # << >> =>
                \/ f = entry_point
                \/ \E u \in Files \ {f} : \E i \in DOMAIN adj_list[u] :
                       adj_list[u][i].to = f

\* C13: every path stored in the graph is canonical: adjacency keys, edge
\* targets, asset-set members and cycle-set members are each their own
\* canonicalize().
C13_Canonical ==
    /\ \A f \in Files :
           /\ adj_list[f] # << >> => canonicalize(f) = f
           /\ \A i \in DOMAIN adj_list[f] :
                  canonicalize(adj_list[f][i].to) = adj_list[f][i].to
    /\ \A p \in assets \cup circular_deps : canonicalize(p) = p

----------------------------------------------------------------------------
\* The functions below are examined one call at a time.  No traversal runs
\* meanwhile: the traverser stays as constructed.

Idle ==
    /\ fs = NoEntry
    /\ cfg = [max_depth |-> 0, max_files |-> 1, permits |-> 1,
              max_consecutive_errors |-> 1, max_total_errors |-> 1]
    /\ Constructed

\* Option<T>: None is << >>, Some(x) is <<x>>.
None == << >>
Some(x) == <<x>>

Least(S) == CHOOSE i \in S : \A j \in S : i <= j

----------------------------------------------------------------------------
\* JsResolver::resolve_file_with_extensions (resolver.rs:246-288).
\*
\* A path is the sequence of its components, and a component the sequence of
\* the pieces that its dots separate: x/index.ts is
\* << <<"x">>, <<"index", "ts">> >> and x.d.ts is << <<"x", "d", "ts">> >>.

\* The number of files and directories on a disk drawn in InitSearch.
MaxOnDisk == 3

\* resolver.rs:251.
extensions == <<"tsx", "ts", "jsx", "js", "mjs", "cjs", "json">>

file_name(path) == path[Len(path)]

\* Path::extension: the piece after the last dot of the file name, if any.
extension(path) ==
    IF Len(file_name(path)) >= 2
    THEN Some(file_name(path)[Len(file_name(path))])
    ELSE None

\* format!("{}.{}", path.display(), ext): ext follows the whole name.
with_suffix(path, ext) == [path EXCEPT ![Len(path)] = Append(@, ext)]

\* Path::with_extension: ext takes the place of the extension of the file
\* name, and follows the name when it has none.
with_extension(path, ext) ==
    [path EXCEPT ![Len(path)] =
        IF Len(@) >= 2 THEN [@ EXCEPT ![Len(@)] = ext] ELSE Append(@, ext)]

\* Path::join of one more component.
join(path, name) == Append(path, name)

\* FileSystemProvider::exists and ::is_directory on a disk.
exists(disk, path) == path \in disk.files \cup disk.dirs
is_directory(disk, path) == path \in disk.dirs

resolve_file_with_extensions(disk, path) ==
    LET replaced == {i \in DOMAIN extensions :
                       /\ exists(disk, with_extension(path, extensions[i]))
                       /\ ~is_directory(disk, with_extension(path, extensions[i]))}
        index == {i \in DOMAIN extensions :
                    exists(disk, join(path, <<"index", extensions[i]>>))}
        appended == {i \in DOMAIN extensions :
                       exists(disk, with_suffix(path, extensions[i]))}
    IN  IF exists(disk, path) /\ ~is_directory(disk, path)
        THEN Some(path)
        ELSE IF replaced # {}
        THEN Some(with_extension(path, extensions[Least(replaced)]))
        ELSE IF is_directory(disk, path) /\ index # {}
        THEN Some(join(path, <<"index", extensions[Least(index)]>>))
        ELSE IF extension(path) = None /\ appended # {}
        THEN Some(with_suffix(path, extensions[Least(appended)]))
        ELSE None

\* The entries that a disk may hold next to and below the candidates ./x,
\* ./x.d and ./x.ts.
TopLevel == {<<n>> : n \in {<<"x">>, <<"x", "ts">>, <<"x", "tsx">>,
                            <<"x", "json">>, <<"x", "d">>, <<"x", "d", "ts">>}}
Nested == {join(dir, <<"index", ext>>) :
             dir \in {<< <<"x">> >>, << <<"x", "d">> >>}, ext \in {"tsx", "ts"}}
Candidates == {<< <<"x">> >>, << <<"x", "d">> >>, << <<"x", "ts">> >>}

Parent(path) == SubSeq(path, 1, Len(path) - 1)

Disks ==
    {disk \in [files : SUBSET (TopLevel \cup Nested), dirs : SUBSET TopLevel] :
        /\ disk.files \cap disk.dirs = {}
        /\ Cardinality(disk.files \cup disk.dirs) <= MaxOnDisk
        /\ \A path \in disk.files \cap Nested : Parent(path) \in disk.dirs}

InitSearch ==
    /\ Idle
    /\ call \in [fn : {"resolve_file_with_extensions"}, disk : Disks,
                 path : Candidates, pc : {"ready"}, result : {None}]

Search ==
    /\ call.pc = "ready"
    /\ call' = [call EXCEPT !.pc = "done",
                  !.result = resolve_file_with_extensions(call.disk, call.path)]
    /\ UNCHANGED traversal

NextSearch == Search

SpecSearch == InitSearch /\ [][NextSearch]_vars

\* C14: the extension search follows a fixed priority: an existing non-directory
\* at the candidate path itself wins; otherwise the first listed extension for
\* which path.ext is an existing non-directory wins; only then the index.ext
\* of a directory is tried, in the same order.
C14_SearchPriority ==
    call.pc = "done" =>
        LET path == call.path
            is_file(p) == exists(call.disk, p) /\ ~is_directory(call.disk, p)
            files == {i \in DOMAIN extensions :
                        is_file(with_suffix(path, extensions[i]))}
            index == {i \in DOMAIN extensions :
                        exists(call.disk, join(path, <<"index", extensions[i]>>))}
        IN  IF is_file(path)
            THEN call.result = Some(path)
            ELSE IF files # {}
            THEN call.result = Some(with_suffix(path, extensions[Least(files)]))
            ELSE (is_directory(call.disk, path) /\ index # {}) =>
                   call.result =
                       Some(join(path, <<"index", extensions[Least(index)]>>))

\* C30: the extension search only appends: a result is the candidate itself,
\* the candidate followed by '.' and a listed extension, or index.<ext> below
\* the candidate; a candidate with a dot in its last component is found with
\* the extension appended when that file exists and nothing is at the
\* candidate itself.
C30_OnlyAppends ==
    call.pc = "done" =>
        LET path == call.path
            appended == {with_suffix(path, extensions[i]) : i \in DOMAIN extensions}
            below == {join(path, <<"index", extensions[i]>>) : i \in DOMAIN extensions}
        IN  /\ call.result # None =>
                   call.result[1] \in {path} \cup appended \cup below
            /\ (/\ extension(path) # None
                /\ ~exists(call.disk, path)
                /\ appended \cap call.disk.files # {})
                   => /\ call.result # None
                      /\ call.result[1] \in appended

----------------------------------------------------------------------------
\* TsConfig::resolve_alias (tsconfig_parser.rs:291-343) and
\* JsResolver::is_external_package (resolver.rs:104-189).
\*
\* A text is the sequence of its characters.  A word such as "react" stands
\* for its letters in a row: no text of the model holds a part of it.

\* The length of the specifiers drawn in InitAlias.
MaxText == 3

starts_with(text, prefix) ==
    Len(prefix) <= Len(text) /\ SubSeq(text, 1, Len(prefix)) = prefix

ends_with(text, suffix) ==
    /\ Len(suffix) <= Len(text)
    /\ SubSeq(text, Len(text) - Len(suffix) + 1, Len(text)) = suffix

contains(text, ch) == \E i \in DOMAIN text : text[i] = ch

\* str::split(ch): the pieces between the occurrences of ch.
RECURSIVE split(_, _)
split(text, ch) ==
    IF ~contains(text, ch) THEN <<text>>
    ELSE LET i == Least({j \in DOMAIN text : text[j] = ch})
         IN  <<SubSeq(text, 1, i - 1)>> \o split(SubSeq(text, i + 1, Len(text)), ch)

\* str::replace(ch, with): every occurrence of ch.
RECURSIVE replace(_, _, _)
replace(text, ch, with) ==
    IF text = << >> THEN << >>
    ELSE (IF Head(text) = ch THEN with ELSE <<Head(text)>>)
             \o replace(Tail(text), ch, with)

\* What a call came to: a value, or a panic.
Ok(v) == [panic |-> FALSE, value |-> v]
Panic == [panic |-> TRUE, value |-> None]

\* &text[from..to]: the characters from+1 .. to; panics when from > to.
slice(text, from, to) == IF from > to THEN Panic ELSE Ok(SubSeq(text, from + 1, to))

\* Path::join: an absolute right-hand side takes the place of the base.
path_join(base, text) ==
    IF starts_with(text, <<"/">>) THEN text ELSE base \o <<"/">> \o text

\* tsconfig_parser.rs:306.
base_dir(tsconfig) ==
    IF tsconfig.base_url # None THEN tsconfig.base_url[1] ELSE tsconfig.config_dir

\* TsConfig::match_pattern.
match_pattern(tsconfig, specifier, pattern, replacements) ==
    IF contains(pattern, "*")
    THEN LET pattern_parts == split(pattern, "*")
             prefix == pattern_parts[1]
             suffix == pattern_parts[2]
             wildcard_match == slice(specifier, Len(prefix),
                                     Len(specifier) - Len(suffix))
         IN  IF Len(pattern_parts) # 2 THEN Ok(None)
             ELSE IF starts_with(specifier, prefix) /\ ends_with(specifier, suffix)
             THEN IF wildcard_match.panic THEN Panic
                  ELSE Ok(Some([i \in DOMAIN replacements |->
                          path_join(base_dir(tsconfig),
                                    IF contains(replacements[i], "*")
                                    THEN replace(replacements[i], "*",
                                                 wildcard_match.value)
                                    ELSE replacements[i])]))
             ELSE Ok(None)
    ELSE IF specifier = pattern
    THEN Ok(Some([i \in DOMAIN replacements |->
                    path_join(base_dir(tsconfig), replacements[i])]))
    ELSE Ok(None)

\* The for loop of resolve_alias from entry i on.  tsconfig.paths is the
\* HashMap in the order in which this instance iterates.
RECURSIVE resolve_alias_from(_, _, _)
resolve_alias_from(tsconfig, specifier, i) ==
    IF i > Len(tsconfig.paths) THEN Ok(None)
    ELSE LET resolved == match_pattern(tsconfig, specifier,
                                       tsconfig.paths[i].pattern,
                                       tsconfig.paths[i].replacements)
         IN  IF resolved.panic \/ resolved.value # None
             THEN resolved
             ELSE resolve_alias_from(tsconfig, specifier, i + 1)

resolve_alias(tsconfig, specifier) == resolve_alias_from(tsconfig, specifier, 1)

\* resolver.rs:116-142.
KNOWN_EXTERNALS ==
    {<<"react">>, <<"react", "-dom">>, <<"react", "-router">>,
     <<"react", "-router", "-dom">>, <<"redux">>, <<"@reduxjs", "/">>,
     <<"@mui", "/">>, <<"@material-ui", "/">>, <<"@emotion", "/">>,
     <<"@testing-library", "/">>, <<"axios">>, <<"lodash">>, <<"lodash", "-es">>,
     <<"@tanstack", "/">>, <<"framer-motion">>, <<"@radix-ui", "/">>,
     <<"next", "/">>, <<"vue">>, <<"svelte">>, <<"@angular", "/">>,
     <<"@types", "/">>, <<"typescript">>, <<"vite">>, <<"webpack">>, <<"rollup">>}

\* resolver.rs:229-239.
COMMON_ALIASES ==
    {<<"@", "/">>, <<"~", "/">>, <<"@components", "/">>, <<"@utils", "/">>,
     <<"@assets", "/">>, <<"@hooks", "/">>, <<"@services", "/">>,
     <<"@store", "/">>, <<"@styles", "/">>}

is_configured_alias(specifier) ==
    \E alias \in COMMON_ALIASES : starts_with(specifier, alias)

\* resolver.rs:144-149.
known_external(specifier) ==
    \E ext \in KNOWN_EXTERNALS : starts_with(specifier, ext)

\* JsResolver::is_external_package; found is what find_and_parse_config
\* returned.  A bare specifier that nothing claims is external by default
\* (resolver.rs:188), whether or not its path enters node_modules.
is_external_package(found, specifier) ==
    IF starts_with(specifier, <<"node_modules", "/">>) THEN Ok(TRUE)
    ELSE IF known_external(specifier) THEN Ok(TRUE)
    ELSE IF starts_with(specifier, <<".">>) \/ starts_with(specifier, <<"/">>)
    THEN Ok(FALSE)
    ELSE LET resolved == IF found = None THEN Ok(None)
                         ELSE resolve_alias(found[1], specifier)
         IN  IF resolved.panic THEN Panic
             ELSE IF resolved.value # None THEN Ok(FALSE)
             ELSE IF is_configured_alias(specifier) THEN Ok(FALSE)
             ELSE Ok(TRUE)

\* The texts of at most n characters over an alphabet.
RECURSIVE Texts(_, _)
Texts(alphabet, n) ==
    IF n = 0 THEN {<< >>}
    ELSE LET shorter == Texts(alphabet, n - 1)
         IN  shorter \cup {Append(text, ch) : text \in shorter, ch \in alphabet}

Specifiers == Texts({"a", "b", "react", "."}, MaxText)

Patterns == {<<"a">>, <<"a", "b">>, <<"*">>, <<"a", "*">>, <<"*", "b">>,
             <<"a", "*", "a">>, <<"a", "*", "b">>, <<"*", "*">>,
             <<"react", "*">>, <<"react">>}

ReplacementLists == {<< <<"*">> >>, << <<"b">>, <<"b", "/", "*">> >>,
                     << <<"/", "*", "*">> >>}

PathEntries == [pattern : Patterns, replacements : ReplacementLists]

\* The paths of a project config, in an order of iteration: one entry, or two
\* whose patterns can match the same specifier.
Overlapping == {e \in PathEntries :
                  /\ e.pattern \in {<<"a", "*">>, <<"*">>, <<"a", "b">>, <<"*", "b">>}
                  /\ Len(e.replacements) = 1}

PathMaps ==
    {<<entry>> : entry \in PathEntries}
        \cup {<<e1, e2>> : e1 \in Overlapping, e2 \in Overlapping}

TsConfigs ==
    {tsconfig \in [base_url : {None, Some(<<"/", "p", "/", "s">>)},
                   config_dir : {<<"/", "p">>}, paths : PathMaps] :
        Len(tsconfig.paths) = 2 =>
            tsconfig.paths[1].pattern # tsconfig.paths[2].pattern}

InitAlias ==
    /\ Idle
    /\ call \in [fn : {"alias"}, found : {None} \cup {Some(t) : t \in TsConfigs},
                 specifier : Specifiers, pc : {"ready"}, result : {Ok(None)}]

ResolveAlias ==
    /\ call.pc = "ready"
    /\ call.found # None
    /\ call' = [call EXCEPT !.pc = "resolve_alias",
                  !.result = resolve_alias(call.found[1], call.specifier)]
    /\ UNCHANGED traversal

IsExternalPackage ==
    /\ call.pc = "ready"
    /\ call' = [call EXCEPT !.pc = "is_external_package",
                  !.result = is_external_package(call.found, call.specifier)]
    /\ UNCHANGED traversal

NextAlias ==
    \/ ResolveAlias
    \/ IsExternalPackage

SpecAlias == InitAlias /\ [][NextAlias]_vars

\* A pattern without '*' matches the specifier equal to it; a pattern with one
\* '*' matches the specifiers that start with its prefix and end with its
\* suffix.
Matches(specifier, pattern) ==
    LET parts == split(pattern, "*")
    IN  \/ Len(parts) = 1 /\ specifier = pattern
        \/ /\ Len(parts) = 2
           /\ starts_with(specifier, parts[1])
           /\ ends_with(specifier, parts[2])

\* The specifier between the prefix and the suffix of a one-'*' pattern.
Capture(specifier, pattern) ==
    LET parts == split(pattern, "*")
    IN  SubSeq(specifier, Len(parts[1]) + 1, Len(specifier) - Len(parts[2]))

\* The base directory joined with each replacement of an entry, in the order
\* of the templates.
Substituted(tsconfig, specifier, entry) ==
    [i \in DOMAIN entry.replacements |->
        path_join(base_dir(tsconfig),
                  IF contains(entry.pattern, "*")
                  THEN replace(entry.replacements[i], "*",
                               Capture(specifier, entry.pattern))
                  ELSE entry.replacements[i])]

Matching(tsconfig, specifier) ==
    {i \in DOMAIN tsconfig.paths : Matches(specifier, tsconfig.paths[i].pattern)}

\* C15: resolve_alias returns None when no pattern matches the specifier, and
\* otherwise returns, for a pattern that matches, the base directory joined with
\* each of its replacements with '*' replaced by the capture, in template order.
C15_AliasMatching ==
    call.pc = "resolve_alias" =>
        LET tsconfig == call.found[1]
            matching == Matching(tsconfig, call.specifier)
        IN  /\ ~call.result.panic
            /\ IF matching = {}
               THEN call.result.value = None
               ELSE \E i \in matching :
                      call.result.value =
                          Some(Substituted(tsconfig, call.specifier,
                                           tsconfig.paths[i]))

\* C17: a specifier that matches an alias pattern of the discovered project
\* config is not classified as external, whatever its first characters.
C17_AliasNeverExternal ==
    (/\ call.pc = "is_external_package"
     /\ call.found # None
     /\ Matching(call.found[1], call.specifier) # {})
        => (call.result.panic \/ call.result.value = FALSE)

\* The entries whose pattern matches the specifier with a capture that is
\* well defined: for a pattern with one '*' the specifier is at least as long
\* as the prefix and the suffix together.
WellMatching(tsconfig, specifier) ==
    {i \in Matching(tsconfig, specifier) :
        LET parts == split(tsconfig.paths[i].pattern, "*")
        IN  Len(parts) = 2 => Len(specifier) >= Len(parts[1]) + Len(parts[2])}

\* C39: resolve_alias is total: for every specifier and every set of patterns
\* it returns Some or None without failing, and a specifier shorter than the
\* prefix and the suffix of a one-'*' pattern together does not match it.
C39_AliasTotal ==
    call.pc = "resolve_alias" =>
        /\ ~call.result.panic
        /\ WellMatching(call.found[1], call.specifier) = {}
               => call.result.value = None

----------------------------------------------------------------------------
\* JsResolver::resolve (resolver.rs:21-102) with the project-config cache of
\* TsConfigParser (tsconfig_parser.rs:46-58, 97-206): several resolutions in
\* flight at once, as the sibling explorations of a traversal make them.

\* The letters of a text in a row.
RECURSIVE concat(_)
concat(text) == IF text = << >> THEN "" ELSE Head(text) \o concat(Tail(text))

\* The components of the path that a text spells, each with the pieces that its
\* dots separate; empty and "." components are dropped, as absolutize() does.
to_path(text) ==
    LET named == SelectSeq(split(text, "/"),
                           LAMBDA name : name # << >> /\ name # <<".">>)
    IN  [i \in DOMAIN named |->
            [j \in DOMAIN split(named[i], ".") |-> concat(split(named[i], ".")[j])]]

\* resolver.rs:192-201.
ASSET_EXTENSIONS ==
    {<<ext>> : ext \in {"css", "scss", "sass", "less", "styl", "stylus",
                        "png", "jpg", "jpeg", "gif", "svg", "webp", "ico",
                        "woff", "woff2", "ttf", "otf", "eot",
                        "mp4", "webm", "ogg", "mp3", "wav",
                        "pdf", "doc", "docx", "xls", "xlsx",
                        "json", "xml", "yaml", "yml", "toml",
                        "md", "mdx", "txt", "csv"}}

\* Path::new(specifier).extension(): what follows the last dot of the last
\* component, unless that component has no dot or only a leading one.
specifier_extension(specifier) ==
    LET named == SelectSeq(split(specifier, "/"), LAMBDA name : name # << >>)
        name == named[Len(named)]
        dots == {i \in DOMAIN name : name[i] = "."}
        last == CHOOSE i \in dots : \A j \in dots : j <= i
    IN  IF named = << >> \/ name \in {<<".">>, <<".", ".">>} THEN None
        ELSE IF dots = {} \/ last = 1 THEN None
        ELSE Some(SubSeq(name, last + 1, Len(name)))

contains_text(text, part) ==
    \E i \in 0..(Len(text) - Len(part)) : SubSeq(text, i + 1, i + Len(part)) = part

\* JsResolver::is_asset_import.
RECURSIVE is_asset_import(_)
is_asset_import(specifier) ==
    IF specifier_extension(specifier) # None
    THEN specifier_extension(specifier)[1] \in ASSET_EXTENSIONS
    ELSE IF contains_text(specifier, <<".", "module", ".">>) THEN TRUE
    ELSE IF contains(specifier, "?")
    THEN is_asset_import(split(specifier, "?")[1])
    ELSE FALSE

ResolvedImport(path, is_asset) ==
    [path |-> path, is_local |-> TRUE, is_asset |-> is_asset]

\* from_file.parent() of the importing file /p/m.ts.
from_dir == <<"/", "p">>

\* resolver.rs:31-47: the asset branch.
resolve_asset(disk, specifier) ==
    LET asset_path == to_path(path_join(from_dir, specifier))
    IN  IF exists(disk, asset_path)
        THEN Ok(Some(ResolvedImport(asset_path, TRUE)))
        ELSE Ok(None)

\* resolver.rs:49-101: the alias candidates in template order, then the
\* specifier joined to the directory of the importing file.
resolve_local(disk, found, specifier) ==
    LET aliased == IF found = None THEN Ok(None)
                   ELSE resolve_alias(found[1], specifier)
        resolved_paths == aliased.value[1]
        search(text) == resolve_file_with_extensions(disk, to_path(text))
        hits == {i \in DOMAIN resolved_paths : search(resolved_paths[i]) # None}
        relative == search(path_join(from_dir, specifier))
    IN  IF aliased.panic THEN Panic
        ELSE IF aliased.value # None /\ hits # {}
        THEN Ok(Some(ResolvedImport(search(resolved_paths[Least(hits)])[1], FALSE)))
        ELSE IF relative # None
        THEN Ok(Some(ResolvedImport(relative[1], FALSE)))
        ELSE Ok(None)

\* The resolutions in flight.
Callers == {"first", "second"}

\* The entries of compilerOptions.paths in /p/tsconfig.json: 'a*' -> x/*,
\* '*' -> y/* and 'ab' -> z.
ConfigEntries ==
    {[pattern |-> <<"a", "*">>, replacements |-> << <<"x", "/", "*">> >>],
     [pattern |-> <<"*">>, replacements |-> << <<"y", "/", "*">> >>],
     [pattern |-> <<"a", "b">>, replacements |-> << <<"z">> >>]}

ConfigFiles == {None} \cup {Some(entries) : entries \in SUBSET ConfigEntries}

\* 'ab', './b', './logo.svg' and 'react'.
ResolveSpecifiers == {<<"a", "b">>, <<".", "/", "b">>,
                      <<".", "/", "logo", ".", "svg">>, <<"react">>}

ResolveFiles ==
    {to_path(text) : text \in {<<"/", "p", "/", "x", "/", "b", ".", "ts">>,
                               <<"/", "p", "/", "y", "/", "a", "b", ".", "ts">>,
                               <<"/", "p", "/", "b", ".", "ts">>,
                               <<"/", "p", "/", "logo", ".", "svg">>}}

\* A disk with the given files and the directories that lead to them.
DiskOf(files) ==
    [files |-> files,
     dirs |-> {SubSeq(path, 1, n) : path \in files, n \in 1..2}
                  \cap {Parent(path) : path \in files}]

\* The orders in which a HashMap of these entries may iterate.  The order
\* depends on the RandomState of the map, which every map draws anew.
Orders(entries) ==
    {order \in [1..Cardinality(entries) -> entries] :
        \A i, j \in DOMAIN order : order[i] = order[j] => i = j}

Caller(specifier) ==
    [specifier |-> specifier, pc |-> "start", phase |-> "external",
     config |-> None, result |-> Ok(None), error |-> FALSE]

InitConfig ==
    /\ Idle
    /\ \E files \in SUBSET ResolveFiles, config_file \in ConfigFiles,
          specifiers \in [Callers -> ResolveSpecifiers], malformed \in BOOLEAN :
          /\ Cardinality(files) <= MaxOnDisk
          /\ malformed => config_file = Some({})
          /\ call = [fn |-> "resolve", disk |-> DiskOf(files),
                     config_file |-> config_file, malformed |-> malformed,
                     cache |-> None, parses |-> 0,
                     callers |-> [c \in Callers |-> Caller(specifiers[c])]]

Done(caller, outcome) == [caller EXCEPT !.pc = "done", !.result = outcome]

\* The `?` behind find_and_parse_config (resolver.rs:54 and 160): resolve
\* returns the Err of parse_config.
Failed(caller) == [caller EXCEPT !.pc = "done", !.error = TRUE]

\* resolver.rs:30-47 and 49-52: the specifier is not external; an asset is
\* looked up at once, anything else asks for the project config again.
after_external(disk, caller) ==
    IF is_asset_import(caller.specifier)
    THEN Done(caller, resolve_asset(disk, caller.specifier))
    ELSE [caller EXCEPT !.pc = "lookup", !.phase = "alias"]

\* find_and_parse_config returned `found` to the caller: the rest of
\* is_external_package (resolver.rs:162-188), or of resolve (53-101).
after_config(disk, caller, found) ==
    LET external == is_external_package(found, caller.specifier)
        known == [caller EXCEPT !.config = found]
    IN  IF caller.phase = "external"
        THEN IF external.panic THEN Done(known, Panic)
             ELSE IF external.value THEN Done(known, Ok(None))
             ELSE after_external(disk, known)
        ELSE Done(known, resolve_local(disk, found, caller.specifier))

\* resolver.rs:27 and 111-160: the checks of is_external_package that need no
\* project config.
BeginResolve(c) ==
    LET caller == call.callers[c]
        specifier == caller.specifier
    IN  /\ caller.pc = "start"
        /\ call' = [call EXCEPT !.callers[c] =
              IF \/ starts_with(specifier, <<"node_modules", "/">>)
                 \/ known_external(specifier)
              THEN Done(caller, Ok(None))
              ELSE IF \/ starts_with(specifier, <<".">>)
                      \/ starts_with(specifier, <<"/">>)
              THEN after_external(call.disk, caller)
              ELSE [caller EXCEPT !.pc = "lookup"]]
        /\ UNCHANGED traversal

\* tsconfig_parser.rs:51-57 and 102-110: find_config_file returned; with a
\* config file the cache is locked and searched, and on a miss the lock is
\* dropped and read_file awaited.
LookupConfig(c) ==
    LET caller == call.callers[c]
    IN  /\ caller.pc = "lookup"
        /\ call' = [call EXCEPT !.callers[c] =
              IF call.config_file = None
              THEN after_config(call.disk, caller, None)
              ELSE IF call.cache # None
              THEN after_config(call.disk, caller, call.cache)
              ELSE [caller EXCEPT !.pc = "read"]]
        /\ UNCHANGED traversal

\* tsconfig_parser.rs:110-201: the file is read; serde_json fails on a
\* malformed one (117-118); otherwise a TsConfig is built, its paths in a
\* HashMap of its own, and the cache lock is awaited.
ParseConfig(c) ==
    LET caller == call.callers[c]
    IN  /\ caller.pc = "read"
        /\ \E order \in Orders(call.config_file[1]) :
              call' = [call EXCEPT
                  !.parses = @ + 1,
                  !.callers[c] =
                      IF call.malformed THEN Failed(caller)
                      ELSE [caller EXCEPT !.pc = "insert",
                              !.config = Some([id |-> call.parses + 1,
                                               base_url |-> None,
                                               config_dir |-> from_dir,
                                               paths |-> order])]]
        /\ UNCHANGED traversal

\* tsconfig_parser.rs:203-205: the new TsConfig takes the place of whatever
\* the cache holds for the path, and is returned.
InsertConfig(c) ==
    LET caller == call.callers[c]
    IN  /\ caller.pc = "insert"
        /\ call' = [call EXCEPT
              !.cache = caller.config,
              !.callers[c] = after_config(call.disk, caller, caller.config)]
        /\ UNCHANGED traversal

NextConfig ==
    \/ \E c \in Callers : BeginResolve(c)
    \/ \E c \in Callers : LookupConfig(c)
    \/ \E c \in Callers : ParseConfig(c)
    \/ \E c \in Callers : InsertConfig(c)

SpecConfig == InitConfig /\ [][NextConfig]_vars

\* C16: resolution is deterministic for a fixed filesystem: two resolutions of
\* the same specifier from the same file return the same result, whatever
\* else is resolved meanwhile and however many alias patterns match.
C16_Deterministic ==
    \A c1, c2 \in Callers :
        (/\ call.callers[c1].pc = "done" /\ call.callers[c2].pc = "done"
         /\ call.callers[c1].specifier = call.callers[c2].specifier)
            => call.callers[c1].result = call.callers[c2].result

\* The resolution of a specifier when no project config is found.
WithoutConfig(disk, specifier) ==
    LET external == is_external_package(None, specifier)
    IN  IF external.value THEN Ok(None)
        ELSE IF is_asset_import(specifier) THEN resolve_asset(disk, specifier)
        ELSE resolve_local(disk, None, specifier)

\* C33: a project-config error is treated as 'no config': with a malformed
\* tsconfig.json, resolve returns no error and resolves the specifier as if
\* no config had been found.
C33_ConfigErrorIgnored ==
    \A c \in Callers :
        (call.malformed /\ call.callers[c].pc = "done")
            => /\ ~call.callers[c].error
               /\ call.callers[c].result =
                      WithoutConfig(call.disk, call.callers[c].specifier)

\* C34: the project-config cache yields one shared value per config path: for
\* any interleaving of the resolutions the config file is read and parsed at
\* most once, and every caller receives the same TsConfig instance.
C34_ParsedOnce ==
    /\ call.parses <= 1
    /\ \A c1, c2 \in Callers :
           (call.callers[c1].config # None /\ call.callers[c2].config # None)
               => call.callers[c1].config[1].id = call.callers[c2].config[1].id

----------------------------------------------------------------------------
\* ImportVisitor (parser.rs:80-226) on the tree that the parser built.
\*
\* A node of the tree has a kind, a text (the string of a literal, the callee
\* of a call, the kind of a declaration or of an arrow body) and its children
\* (the arguments of a call, the body of an arrow function, the initializer of
\* a declaration).  The span of a node is its position in the tree.

\* The number of items of a module drawn in InitParser.
MaxItems == 2

Node(kind, text, children) == [node |-> kind, text |-> text, children |-> children]

Str(value) == Node("str", value, << >>)
Ident(name) == Node("ident", name, << >>)
CallExpr(callee, args) == Node("call", callee, args)
ArrowExpr(body) == Node("arrow", "expr", <<body>>)
ArrowBlock(stmts) == Node("arrow", "block", stmts)
ReturnStmt(arg) == Node("return", "", <<arg>>)
ImportDecl(src) == Node("import_decl", src, << >>)
ExportAll(src) == Node("export_all", src, << >>)
NamedExport(src) == Node("named_export", src, << >>)
ExportDecl(decl, init) == Node("export_decl", decl, init)
VarDecl(init) == Node("var_decl", "const", <<init>>)

\* ImportVisitor::add_import: the statement pushed for a node.
ImportStatement(specifier, kind, span) ==
    [specifier |-> specifier, kind |-> kind, span |-> span]

is_import_of_str(expr) ==
    /\ expr.node = "call" /\ expr.text = "import"
    /\ Len(expr.children) = 1
    /\ expr.children[1].node = "str"

\* ImportVisitor::extract_import_from_arrow.
extract_import_from_arrow(arrow) ==
    LET stmts == arrow.children
        returned == {i \in DOMAIN stmts :
                       /\ stmts[i].node = "return"
                       /\ stmts[i].children # << >>
                       /\ is_import_of_str(stmts[i].children[1])}
    IN  IF arrow.text = "expr"
        THEN IF is_import_of_str(stmts[1])
             THEN Some(stmts[1].children[1].text) ELSE None
        ELSE IF returned # {}
        THEN Some(stmts[Least(returned)].children[1].children[1].text)
        ELSE None

\* parser.rs:173-222: the statements that visit_mut_call_expr adds for the
\* call itself, before it visits the children.
call_imports(n, span) ==
    LET lazy_of(callee) ==
            IF /\ n.text = callee /\ Len(n.children) >= 1
               /\ n.children[1].node = "arrow"
               /\ extract_import_from_arrow(n.children[1]) # None
            THEN <<ImportStatement(extract_import_from_arrow(n.children[1])[1],
                                   "Dynamic", span)>>
            ELSE << >>
    IN  (IF /\ n.text = "require" /\ Len(n.children) = 1
            /\ n.children[1].node = "str"
         THEN <<ImportStatement(n.children[1].text, "CommonJs", span)>>
         ELSE << >>)
        \o lazy_of("React.lazy")
        \o lazy_of("lazy")
        \o (IF is_import_of_str(n)
            THEN <<ImportStatement(n.children[1].text, "Dynamic", span)>>
            ELSE << >>)

\* parser.rs:141-165: `export const x = "..."` adds a statement.
export_decl_imports(n, span) ==
    IF n.text = "var" /\ n.children # << >> /\ n.children[1].node = "str"
    THEN <<ImportStatement(n.children[1].text, "EsModule", span)>>
    ELSE << >>

\* The visit of node n at span, and of its children from the i-th on
\* (visit_mut_children_with).
RECURSIVE visit(_, _)
RECURSIVE visit_children(_, _, _)
visit(n, span) ==
    (CASE n.node \in {"import_decl", "export_all"} ->
              <<ImportStatement(n.text, "EsModule", span)>>
       [] n.node = "export_decl" -> export_decl_imports(n, span)
       [] n.node = "call" -> call_imports(n, span)
       [] OTHER -> << >>)
    \o visit_children(n, span, 1)

visit_children(n, span, i) ==
    IF i > Len(n.children) THEN << >>
    ELSE visit(n.children[i], Append(span, i)) \o visit_children(n, span, i + 1)

\* JsParser::parse (parser.rs:18-47): the visitor runs over the module.
parse(module) == visit(Node("module", "", module), << >>)

Lazy == VarDecl(CallExpr("lazy", <<ArrowExpr(CallExpr("import", <<Str("./Big")>>))>>))
ReactLazy ==
    VarDecl(CallExpr("React.lazy",
                     <<ArrowBlock(<<ReturnStmt(CallExpr("import", <<Str("./Big")>>))>>)>>))

Items ==
    {ImportDecl("./b"), ExportAll("./b"), NamedExport("./b"),
     ExportDecl("var", <<Str("./b")>>), ExportDecl("var", <<Ident("y")>>),
     ExportDecl("fn", << >>),
     Lazy, ReactLazy,
     VarDecl(CallExpr("import", <<Str("./Big")>>)),
     VarDecl(CallExpr("require", <<Str("./b")>>)),
     VarDecl(CallExpr("require", <<Ident("y")>>)),
     VarDecl(CallExpr("lazy", <<ArrowExpr(CallExpr("f", << >>))>>)),
     VarDecl(CallExpr("lazy", <<Ident("y")>>)),
     VarDecl(CallExpr("f", <<CallExpr("require", <<Str("./b")>>),
                             CallExpr("import", <<Str("./c")>>)>>))}

Modules == UNION {[1..n -> Items] : n \in 0..MaxItems}

InitParser ==
    /\ Idle
    /\ call \in [fn : {"parse"}, module : Modules, pc : {"ready"},
                 imports : {<< >>}]

ExtractImports ==
    /\ call.pc = "ready"
    /\ call' = [call EXCEPT !.pc = "done", !.imports = parse(call.module)]
    /\ UNCHANGED traversal

NextParser == ExtractImports

SpecParser == InitParser /\ [][NextParser]_vars

\* The statements that come from item i of the module.
StatementsOf(i) ==
    {j \in DOMAIN call.imports : call.imports[j].span[1] = i}

\* C18: an item `const M = lazy(() => import('./Big'))`, or its React.lazy
\* form, yields exactly one import statement, for './Big' and of kind Dynamic,
\* hence one edge.
C18_LazyOnce ==
    call.pc = "done" =>
        \A i \in DOMAIN call.module :
            call.module[i] \in {Lazy, ReactLazy} =>
                /\ Cardinality(StatementsOf(i)) = 1
                /\ \A j \in StatementsOf(i) :
                       /\ call.imports[j].specifier = "./Big"
                       /\ call.imports[j].kind = "Dynamic"

\* C36: an import declaration, an `export * from` and a named
\* `export { ... } from` yield exactly one statement each, of kind EsModule
\* and for their source; an export declaration without `from` yields none.
C36_ExportsFromOnly ==
    call.pc = "done" =>
        \A i \in DOMAIN call.module :
            /\ call.module[i] \in {ImportDecl("./b"), ExportAll("./b"),
                                   NamedExport("./b")}
                   => /\ Cardinality(StatementsOf(i)) = 1
                      /\ \A j \in StatementsOf(i) :
                             /\ call.imports[j].specifier = "./b"
                             /\ call.imports[j].kind = "EsModule"
            /\ call.module[i].node = "export_decl" => StatementsOf(i) = {}

----------------------------------------------------------------------------
\* TsConfigParser::strip_json_comments (tsconfig_parser.rs:231-287) on texts
\* over the characters that it tells apart; "x" is any other character.

\* The length of the texts drawn in InitStrip.
MaxJson == 5

JsonChars == {"\"", "\\", "/", "*", "\n", "x"}

\* String::push.
push(text, ch) == Append(text, ch)

\* A backslash escapes wherever it stands.
escapes_anywhere(ch, in_string) == ch = "\\"

\* tsconfig_parser.rs:244: a backslash inside a string escapes what follows.
escapes(ch, in_string) == ch = "\\" /\ in_string

\* A block comment ends at the first '/'.
block_ends_at_slash(prev_ch, ch) == ch = "/"

\* tsconfig_parser.rs:270: the end of a block comment.
block_ends(prev_ch, ch) == prev_ch = "*" /\ ch = "/"

\* tsconfig_parser.rs:260-265: the position of the newline that ends the line
\* comment whose text starts at position i (0: the content ends first).
line_comment_end(content, i) ==
    LET newlines == {j \in i..Len(content) : content[j] = "\n"}
    IN  IF newlines = {} THEN 0 ELSE Least(newlines)

\* tsconfig_parser.rs:268-274: the position of the '/' that ends the block
\* comment whose text starts at position i (0: the content ends first);
\* prev_ch starts as a space.
block_comment_end(content, i) ==
    LET ends == {j \in i..Len(content) :
                   block_ends(IF j = i THEN " " ELSE content[j - 1], content[j])}
    IN  IF ends = {} THEN 0 ELSE Least(ends)

\* The while loop from the character at position i on.
RECURSIVE strip_from(_, _, _, _, _)
strip_from(content, i, in_string, escape_next, stripped) ==
    IF i > Len(content) THEN stripped
    ELSE LET ch == content[i]
             line == line_comment_end(content, i + 2)
             block == block_comment_end(content, i + 2)
         IN  IF escape_next
             THEN strip_from(content, i + 1, in_string, FALSE, push(stripped, ch))
             ELSE IF escapes(ch, in_string)
             THEN strip_from(content, i + 1, in_string, TRUE, push(stripped, ch))
             ELSE IF ch = "\"" /\ ~in_string
             THEN strip_from(content, i + 1, TRUE, FALSE, push(stripped, ch))
             ELSE IF ch = "\"" /\ in_string
             THEN strip_from(content, i + 1, FALSE, FALSE, push(stripped, ch))
             ELSE IF ch = "/" /\ ~in_string /\ i < Len(content)
                     /\ content[i + 1] = "/"
             THEN IF line = 0 THEN stripped
                  ELSE strip_from(content, line + 1, FALSE, FALSE,
                                  push(stripped, "\n"))
             ELSE IF ch = "/" /\ ~in_string /\ i < Len(content)
                     /\ content[i + 1] = "*"
             THEN IF block = 0 THEN stripped
                  ELSE strip_from(content, block + 1, FALSE, FALSE, stripped)
             ELSE strip_from(content, i + 1, in_string, FALSE, push(stripped, ch))

strip_json_comments(content) == strip_from(content, 1, FALSE, FALSE, << >>)

InitStrip ==
    /\ Idle
    /\ call \in [fn : {"strip_json_comments"}, content : Texts(JsonChars, MaxJson),
                 pc : {"ready"}, result : {<< >>}]

StripJsonComments ==
    /\ call.pc = "ready"
    /\ call' = [call EXCEPT !.pc = "done",
                            !.result = strip_json_comments(call.content)]
    /\ UNCHANGED traversal

NextStrip == StripJsonComments

SpecStrip == InitStrip /\ [][NextStrip]_vars

\* The lexical structure of JSON with comments, told token by token.

\* The backslashes in a row that end just before position j, from low on.
RECURSIVE Backslashes(_, _, _)
Backslashes(content, j, low) ==
    IF j - 1 >= low /\ content[j - 1] = "\\"
    THEN 1 + Backslashes(content, j - 1, low)
    ELSE 0

\* The last position of the string literal that opens at i: its closing
\* quote, the first one after an even number of backslashes; the end of the
\* content when the literal is not closed.
StringEnd(content, i) ==
    LET closing == {j \in (i + 1)..Len(content) :
                      /\ content[j] = "\""
                      /\ Backslashes(content, j, i + 1) % 2 = 0}
    IN  IF closing = {} THEN Len(content) ELSE Least(closing)

\* The last position of the line comment that opens at i: the one before the
\* next newline.
LineEnd(content, i) ==
    LET newlines == {j \in (i + 2)..Len(content) : content[j] = "\n"}
    IN  IF newlines = {} THEN Len(content) ELSE Least(newlines) - 1

\* The last position of the block comment that opens at i: the '/' of the
\* first '*/' behind the opening '/*'.
BlockEnd(content, i) ==
    LET closing == {j \in (i + 3)..Len(content) :
                      content[j - 1] = "*" /\ content[j] = "/"}
    IN  IF closing = {} THEN Len(content) ELSE Least(closing)

\* The positions from i on that belong to a comment, i being outside of
\* string literals and comments.
RECURSIVE Commented(_, _)
Commented(content, i) ==
    IF i > Len(content) THEN {}
    ELSE IF content[i] = "\"" THEN Commented(content, StringEnd(content, i) + 1)
    ELSE IF content[i] = "/" /\ i < Len(content) /\ content[i + 1] = "/"
    THEN i..LineEnd(content, i) \cup Commented(content, LineEnd(content, i) + 1)
    ELSE IF content[i] = "/" /\ i < Len(content) /\ content[i + 1] = "*"
    THEN i..BlockEnd(content, i) \cup Commented(content, BlockEnd(content, i) + 1)
    ELSE Commented(content, i + 1)

\* The content without the positions in `out`.
RECURSIVE Without(_, _)
Without(content, out) ==
    IF content = << >> THEN << >>
    ELSE LET n == Len(content)
             front == Without(SubSeq(content, 1, n - 1), out)
         IN  IF n \in out THEN front ELSE Append(front, content[n])

\* C19: strip_json_comments is the identity on comment-free input: a text
\* with no '//' and no '/*' outside string literals comes back character for
\* character.
C19_IdentityWithoutComments ==
    (call.pc = "done" /\ Commented(call.content, 1) = {})
        => call.result = call.content

\* C19 witness: the text "//" (a string literal holding two slashes) came back
\* unchanged.
C19_Witness ==
    /\ call.pc = "done"
    /\ call.content = <<"\"", "/", "/", "\"">>
    /\ call.result = call.content

\* C20: strip_json_comments removes every line comment and every block comment
\* that starts outside a string literal and nothing else: string literals,
\* with the '//' and '/*' in them and with their escaped quotes, and the
\* newline that ends a line comment are kept.
C20_StripsComments ==
    call.pc = "done" =>
        call.result = Without(call.content, Commented(call.content, 1))

\* C20 witness: "/"// came back as "/": the slash in the string stayed, the
\* comment behind it went.
C20_Witness ==
    /\ call.pc = "done"
    /\ call.content = <<"\"", "/", "\"", "/", "/">>
    /\ call.result = <<"\"", "/", "\"">>

----------------------------------------------------------------------------
\* The traversal again.

\* C21: the entry file is always part of the result: when the entry exists and
\* is readable and parseable, and max_depth >= 1 and max_files >= 1, a
\* traversal that has returned has read the entry and holds its resolved
\* local imports as the edges under its canonical path, whatever the
\* directories of its absolute path are called.
C21_EntryExplored ==
    (/\ Returned
     /\ Explorable(fs.entry)
     /\ cfg.max_depth >= 1 /\ cfg.max_files >= 1)
        => /\ hist.read[canonicalize(fs.entry)] >= 1
           /\ adj_list[canonicalize(fs.entry)] = ExpectedEdges(canonicalize(fs.entry))

\* C22: a failure of one child exploration does not stop its siblings: every
\* child that a parent scheduled runs to completion, none is cancelled
\* because another child of that parent returned an error.
C22_SiblingsComplete == \A k \in DOMAIN expl : expl[k].pc # "dropped"

\* A step in which record_error ran, and one in which it returned Err for the
\* first time in the run.
ErrorRecorded == error_count' = error_count + 1

FirstTrip == "breaker" \notin hist.errors /\ "breaker" \in hist'.errors

\* C23: record_error returns an error only when a limit is exceeded: the call
\* that brings the counters to values <= max_consecutive_errors and
\* <= max_total_errors returns Ok, so the breaker trips only with one of the
\* two counters strictly greater than its limit.
C23_TripsPastLimit ==
    [][(ErrorRecorded /\ FirstTrip) =>
           \/ consecutive_errors' > cfg.max_consecutive_errors
           \/ error_count' > cfg.max_total_errors]_vars

\* A step in which record_success ran: a read or a parse succeeded.
SuccessRecorded ==
    \E e \in DOMAIN expl :
        \/ expl[e].pc = "read" /\ expl'[e].pc = "parse"
        \/ /\ expl[e].pc = "parse" /\ expl'[e].pc \in {"resolve", "join", "done"}
           /\ expl[e].canonical \notin fs.unparsable

\* C24: a successful read or parse resets the consecutive-error counter to 0
\* and leaves the total unchanged; the total never decreases, the consecutive
\* counter never exceeds the total, and the breaker trips on the consecutive
\* limit only with max_consecutive_errors errors counted since the last
\* success.
C24_SuccessResets ==
    [][/\ SuccessRecorded => (consecutive_errors' = 0 /\ error_count' = error_count)
       /\ error_count' >= error_count
       /\ consecutive_errors' <= error_count'
       /\ (ErrorRecorded /\ FirstTrip /\ error_count' < cfg.max_total_errors)
              => consecutive_errors' >= cfg.max_consecutive_errors]_vars

\* C24 witness: b of Broken could not be read, and a later read or parse
\* succeeded: one error in total, none in a row.
C24_Witness == fs = Broken /\ error_count = 1 /\ consecutive_errors = 0

\* The explorations that hold a permit of the semaphore.
Holders == {k \in DOMAIN expl : expl[k].permit}

\* C25: at most `permits` explorations hold a permit at a time, and they are
\* the ones between the acquire and their return (reading, parsing, resolving
\* or awaiting their children); every exploration that has ended, by a return
\* or by being dropped, has given its permit back, so that all permits are
\* available when traverse has returned.
C25_PermitsBounded ==
    /\ Cardinality(Holders) <= cfg.permits
    /\ semaphore = cfg.permits - Cardinality(Holders)
    /\ \A k \in DOMAIN expl :
           expl[k].permit <=> expl[k].pc \in Exploring \ {"acquire"}
    /\ Returned => semaphore = cfg.permits

\* C25 witness: both permits of the semaphore are held and a third exploration
\* waits for one.
C25_Witness ==
    /\ cfg.permits = 2 /\ Cardinality(Holders) = 2
    /\ \E k \in DOMAIN expl : expl[k].pc = "acquire"

\* Exploration e takes the step in which the read or the parse of its file
\* fails.
Fails(e) ==
    /\ \/ expl[e].pc = "read" /\ expl[e].canonical \in fs.unreadable
       \/ expl[e].pc = "parse" /\ expl[e].canonical \in fs.unparsable
    /\ expl'[e].pc \notin {expl[e].pc, "dropped"}

\* C26: a read or parse failure is recoverable: unless the breaker trips, the
\* failing exploration returns Ok: one error is counted, the file leaves
\* in_progress, stays in visited and has no outgoing edges, the traversal has
\* not failed and no other exploration is stopped.
C26_FailureRecoverable ==
    [][\A e \in DOMAIN expl :
         (Fails(e) /\ ~record_error_trips(error_count + 1, consecutive_errors + 1))
            => /\ expl'[e].pc = "done"
               /\ error_count' = error_count + 1
               /\ expl[e].canonical \notin in_progress'
               /\ expl[e].canonical \in visited'
               /\ adj_list'[expl[e].canonical] = << >>
               /\ result' # "Err"
               /\ \A k \in DOMAIN expl : expl'[k].pc # "dropped"
                                           \/ expl[k].pc = "dropped"]_vars

\* C26 witness: Broken was traversed to the end: b could not be read, d could
\* not be parsed, the breaker did not trip, and all four files are in visited.
C26_Witness ==
    /\ fs = Broken /\ result = "Ok" /\ error_count = 2
    /\ "breaker" \notin hist.errors
    /\ visited = {"a", "b", "c", "d"} /\ in_progress = {}
    /\ adj_list["b"] = << >> /\ adj_list["d"] = << >>

\* The files whose path the exclusion patterns or the path heuristic reject.
Rejected ==
    {f \in Files : \/ should_exclude_path(f)
                   \/ should_skip(from_path(f, entry_point))}

\* C27: a file whose path matches a user exclusion pattern, the default
\* denylist or the path heuristic is never read, never inserted into visited
\* and never a source key of the graph.
C27_ExcludedUntouched ==
    \A f \in Rejected :
        /\ hist.read[f] = 0
        /\ f \notin visited
        /\ adj_list[f] = << >>

\* C28: the file counter counts distinct explored files: reaching a file
\* again does not count, so a traversal over fewer than max_files distinct
\* files raises no file-limit error, however many imports lead to the same
\* file.
C28_CountsDistinctFiles ==
    Cardinality(Reachable) < cfg.max_files => "file_limit" \notin hist.errors

\* C37: in_progress is a subset of visited, and when traverse has returned,
\* Ok or Err, in_progress is empty: every path inserted into in_progress was
\* removed again on the way out of its exploration.
C37_InProgressEmptied ==
    /\ in_progress \subseteq visited
    /\ Returned => in_progress = {}

----------------------------------------------------------------------------
\* JsResolver::is_asset_import and the asset branch of JsResolver::resolve
\* (resolver.rs:31-49), for a specifier that is_external_package let through.

\* The length of the specifiers drawn in InitAsset.
MaxSpecifier == 5

\* "x" is a name that is no asset extension.
AssetChars == {".", "/", "?", "x", "svg", "module"}

\* The disk with the file that the specifier names below from_dir, or without.
AssetDisk(specifier, on_disk) ==
    [files |-> IF on_disk THEN {to_path(path_join(from_dir, specifier))} ELSE {},
     dirs |-> {}]

InitAsset ==
    /\ Idle
    /\ call \in [fn : {"asset"}, specifier : Texts(AssetChars, MaxSpecifier),
                 on_disk : BOOLEAN, pc : {"ready"}, asset : {FALSE},
                 result : {Ok(None)}]

\* resolver.rs:31.
IsAssetImport ==
    /\ call.pc = "ready"
    /\ call' = [call EXCEPT !.pc = "classified",
                            !.asset = is_asset_import(call.specifier)]
    /\ UNCHANGED traversal

\* resolver.rs:32-48.
ResolveAsset ==
    /\ call.pc = "classified"
    /\ call.asset
    /\ call' = [call EXCEPT !.pc = "resolved",
                  !.result = resolve_asset(AssetDisk(call.specifier, call.on_disk),
                                           call.specifier)]
    /\ UNCHANGED traversal

NextAsset ==
    \/ IsAssetImport
    \/ ResolveAsset

SpecAsset == InitAsset /\ [][NextAsset]_vars

\* A text without '?' is an asset by its extension or by '.module.'.
AssetBase(text) ==
    \/ /\ specifier_extension(text) # None
       /\ specifier_extension(text)[1] \in ASSET_EXTENSIONS
    \/ contains_text(text, <<".", "module", ".">>)

\* A specifier is an asset by its extension, by '.module.', or by the part
\* before its '?query'.
AssetSpecifier(specifier) ==
    \/ AssetBase(specifier)
    \/ contains(specifier, "?") /\ AssetBase(split(specifier, "?")[1])

\* C29: a specifier is classified as an asset whenever its extension is an
\* asset extension, or it contains '.module.', or it carries a '?query' behind
\* an asset; an asset specifier resolves to the path that it names below the
\* directory of the importing file when that path exists, and to None
\* otherwise.
C29_AssetClassified ==
    /\ call.pc # "ready" => call.asset = AssetSpecifier(call.specifier)
    /\ call.pc = "resolved" =>
           call.result =
               IF call.on_disk
               THEN Ok(Some(ResolvedImport(to_path(path_join(from_dir, call.specifier)),
                                           TRUE)))
               ELSE Ok(None)

----------------------------------------------------------------------------
\* TsConfigParser::parse_config (tsconfig_parser.rs:97-206) on a chain of
\* configs that extend each other.
\*
\* The config files lie in the sibling directories /r/p and /r/q; a config
\* path is <<directory, name>> (name.json).  An extends string is <<".", name>>
\* ('./name') or <<directory, name>> ('../directory/name').  A file defines
\* the pattern key '@/*' or not, with its own path as the value, and a baseUrl
\* 'u' or not.

ConfigJson(base_url, keys, extends) ==
    [base_url |-> base_url, paths |-> [k \in keys |-> "here"], extends |-> extends]

\* The config that parse_config is called for.
child_path == <<"p", "a">>

\* Path::join(dir, extends), then with_extension("json"): './name' stays in
\* the directory, '../directory/name' leaves it.
extended_path_of(dir, extends) ==
    IF extends[1] = "." THEN <<dir, extends[2]>> ELSE extends

\* The values of a config's paths tell the file that defined them.
paths_of(disk, path) == [k \in DOMAIN disk[path][1].paths |-> path]

\* HashMap::entry(key).or_insert(value) for every entry of `more`.
or_insert_all(all_paths, more) ==
    [k \in DOMAIN all_paths \cup DOMAIN more |->
        IF k \in DOMAIN all_paths THEN all_paths[k] ELSE more[k]]

\* HashMap::insert(key, value) for every entry of `more`.
insert_all(all_paths, more) ==
    [k \in DOMAIN all_paths \cup DOMAIN more |->
        IF k \in DOMAIN more THEN more[k] ELSE all_paths[k]]

\* tsconfig_parser.rs:128 and 173: the directory that a baseUrl is joined to.
base_url_in(dir, json) ==
    IF json.base_url = None THEN None ELSE Some(<<dir, json.base_url[1]>>)

\* The walk never noticing a repeated extends string.
repeats_never(visited_extends, extends) == FALSE

\* tsconfig_parser.rs:135: the extends string was met before.
repeats(visited_extends, extends) == extends \in visited_extends

\* What each file may hold; None is no file.
Extending(choices) ==
    {Some(ConfigJson(base_url, keys, extends)) :
        base_url \in {None, Some("u")}, keys \in SUBSET {"@/*"},
        extends \in {None} \cup {Some(e) : e \in choices}}

ConfigDisks ==
    [{child_path} -> Extending({<<".", "a">>, <<".", "b">>, <<"q", "b">>})]
    \X [{<<"p", "b">>} -> Extending({<<".", "c">>, <<".", "a">>}) \cup {None}]
    \X [{<<"q", "b">>} -> Extending({<<".", "c">>}) \cup {None}]
    \X [{<<"p", "c">>, <<"q", "c">>} -> Extending({}) \cup {None}]

on_disk(disk, path) == path \in DOMAIN disk /\ disk[path] # None

InitExtends ==
    /\ Idle
    /\ \E d \in ConfigDisks :
          call = [fn |-> "parse_config", disk |-> d[1] @@ d[2] @@ d[3] @@ d[4],
                  pc |-> "read", base_url |-> None, all_paths |-> << >>,
                  current_extends |-> None, visited_extends |-> {},
                  result |-> None]

\* tsconfig_parser.rs:110-132: the config is read and parsed.
ReadConfig ==
    /\ call.pc = "read"
    /\ call' = [call EXCEPT
          !.pc = "extends",
          !.base_url = base_url_in(child_path[1], call.disk[child_path][1]),
          !.current_extends = call.disk[child_path][1].extends]
    /\ UNCHANGED traversal

\* tsconfig_parser.rs:134-189: one turn of the while loop.
ExtendConfig ==
    /\ call.pc = "extends"
    /\ LET extends == call.current_extends[1]
           extended_path == extended_path_of(child_path[1], extends)
           extended_json == call.disk[extended_path][1]
       IN  call' =
             IF call.current_extends = None THEN [call EXCEPT !.pc = "merge"]
             ELSE IF repeats(call.visited_extends, extends)
             THEN [call EXCEPT !.pc = "merge"]
             ELSE IF ~on_disk(call.disk, extended_path)
             THEN [call EXCEPT !.pc = "merge",
                               !.visited_extends = @ \cup {extends}]
             ELSE [call EXCEPT
                     !.visited_extends = @ \cup {extends},
                     !.base_url = IF @ = None
                                  THEN base_url_in(extended_path[1], extended_json)
                                  ELSE @,
                     !.all_paths = or_insert_all(@, paths_of(call.disk, extended_path)),
                     !.current_extends = extended_json.extends]
    /\ UNCHANGED traversal

\* tsconfig_parser.rs:191-205: the config's own paths, and the TsConfig.
MergeConfig ==
    /\ call.pc = "merge"
    /\ call' = [call EXCEPT
          !.pc = "done",
          !.result = Some([base_url |-> call.base_url,
                           paths |-> insert_all(call.all_paths,
                                                paths_of(call.disk, child_path)),
                           extends |-> call.disk[child_path][1].extends,
                           config_dir |-> child_path[1]])]
    /\ UNCHANGED traversal

NextExtends ==
    \/ ReadConfig
    \/ ExtendConfig
    \/ MergeConfig

SpecExtends == InitExtends /\ [][NextExtends]_vars

\* parse_config is one future that its caller polls until it is ready, and
\* every read that it awaits completes.
SpecExtendsFair == SpecExtends /\ WF_vars(NextExtends)

\* The chain of configs that starts at `path`: each config, then the one that
\* its extends names in its own directory, up to a config without extends, a
\* missing file or a config that the chain already holds.
RECURSIVE ChainFrom(_, _, _)
ChainFrom(disk, path, held) ==
    IF ~on_disk(disk, path) \/ path \in held THEN << >>
    ELSE LET json == disk[path][1]
         IN  <<path>> \o
             (IF json.extends = None THEN << >>
              ELSE ChainFrom(disk, extended_path_of(path[1], json.extends[1]),
                             held \cup {path}))

\* The configs of the chain that define the key, or a baseUrl, nearest first.
Defining(disk, chain, key) ==
    {i \in DOMAIN chain : key \in DOMAIN disk[chain[i]][1].paths}

WithBaseUrl(disk, chain) ==
    {i \in DOMAIN chain : disk[chain[i]][1].base_url # None}

\* C31: merging the chain child -> parent -> grandparent: every pattern key
\* has the value of the nearest config that defines it, keys of ancestors are
\* inherited, and baseUrl is that of the nearest config that has one, joined
\* to the directory of that config.
C31_NearestWins ==
    call.pc = "done" =>
        LET chain == ChainFrom(call.disk, child_path, {})
            based == WithBaseUrl(call.disk, chain)
            merged == call.result[1]
        IN  /\ \A key \in {"@/*"} :
                   IF Defining(call.disk, chain, key) = {}
                   THEN key \notin DOMAIN merged.paths
                   ELSE /\ key \in DOMAIN merged.paths
                        /\ merged.paths[key] =
                               chain[Least(Defining(call.disk, chain, key))]
            /\ merged.base_url =
                   IF based = {} THEN None
                   ELSE Some(<<chain[Least(based)][1],
                               call.disk[chain[Least(based)]][1].base_url[1]>>)

\* C32: parse_config terminates for every extends chain, cyclic ones and
\* self-extension included: the walk stops at the first extends string that
\* repeats, and the configuration merged so far is returned.
C32_WalkTerminates == <>(call.pc = "done" /\ call.result # None)

\* C32 witness: a extends ./b and b extends ./a; the walk has read b, then a
\* again, has met './b' a second time and has returned.
C32_Witness ==
    /\ call.pc = "done" /\ call.result # None
    /\ call.disk[child_path][1].extends = Some(<<".", "b">>)
    /\ call.disk[<<"p", "b">>] # None
    /\ call.disk[<<"p", "b">>][1].extends = Some(<<".", "a">>)
    /\ call.visited_extends = {<<".", "a">>, <<".", "b">>}
    /\ call.current_extends = Some(<<".", "b">>)

----------------------------------------------------------------------------
\* CachedFileSystem (fs.rs:43-80): two callers use one cached provider while
\* the files below it change.

\* The capacity of the cache.  CachedFileSystem::new gives it 512 entries; the
\* capacity here is smaller so that an eviction is reached with few files.
MaxCached == 2

CachedPaths == {"p", "q", "r"}

Readers == {"first", "second"}

\* The cache is the list of its entries, the least recently used first.
Entry(path, content) == [path |-> path, content |-> content]

without(cache, path) == SelectSeq(cache, LAMBDA entry : entry.path # path)

\* LruCache::get: the content kept for the path, if any.
get(cache, path) ==
    LET kept == {i \in DOMAIN cache : cache[i].path = path}
    IN  IF kept = {} THEN None ELSE Some(cache[CHOOSE i \in kept : TRUE].content)

\* LruCache::get makes the entry the most recently used one.
promote(cache, path) ==
    without(cache, path) \o SelectSeq(cache, LAMBDA entry : entry.path = path)

\* LruCache::put: the entry becomes the most recently used one; the least
\* recently used one makes room in a full cache.
put(cache, path, content) ==
    LET others == without(cache, path)
        room == IF Len(others) >= MaxCached THEN Tail(others) ELSE others
    IN  Append(room, Entry(path, content))

\* The lock given back before the inner read.
unlocked_after_miss(reader) == "free"

\* fs.rs:60-64: the guard `cache` lives to the end of read_file, so the lock
\* is held while the inner provider reads.
lock_after_miss(reader) == reader

Reader(op, path, pc) ==
    [op |-> op, path |-> path, pc |-> pc, ok |-> FALSE, content |-> None,
     hit |-> FALSE]

InitCache ==
    /\ Idle
    /\ \E disk \in [CachedPaths -> {None, Some("v1")}] :
          call = [fn |-> "CachedFileSystem", disk |-> disk, cache |-> << >>,
                  lock |-> "free",
                  readers |-> [c \in Readers |-> Reader("none", "p", "idle")]]

\* A caller calls read_file, exists, is_directory or canonicalize.
CallProvider(c) ==
    /\ call.readers[c].pc \in {"idle", "done"}
    /\ \E op \in {"read_file", "exists", "is_directory", "canonicalize"},
          path \in CachedPaths :
          call' = [call EXCEPT !.readers[c] =
                     Reader(op, path, IF op = "read_file" THEN "lock" ELSE "pass")]
    /\ UNCHANGED traversal

\* fs.rs:60-63: the lock is granted; a hit returns the kept content.
LockCache(c) ==
    LET reader == call.readers[c]
        kept == get(call.cache, reader.path)
    IN  /\ reader.pc = "lock"
        /\ call.lock = "free"
        /\ call' = IF kept # None
                   THEN [call EXCEPT
                           !.cache = promote(@, reader.path),
                           !.readers[c] = [reader EXCEPT !.pc = "done", !.ok = TRUE,
                                                         !.content = kept,
                                                         !.hit = TRUE]]
                   ELSE [call EXCEPT
                           !.lock = lock_after_miss(c),
                           !.readers[c] = [reader EXCEPT !.pc = "inner"]]
        /\ UNCHANGED traversal

\* fs.rs:64-66: the inner read_file returned.
InnerRead(c) ==
    LET reader == call.readers[c]
        content == call.disk[reader.path]
    IN  /\ reader.pc = "inner"
        /\ call' = IF content = None
                   THEN [call EXCEPT
                           !.lock = "free",
                           !.readers[c] = [reader EXCEPT !.pc = "done"]]
                   ELSE [call EXCEPT
                           !.lock = "free",
                           !.cache = put(@, reader.path, content[1]),
                           !.readers[c] = [reader EXCEPT !.pc = "done", !.ok = TRUE,
                                                         !.content = content]]
        /\ UNCHANGED traversal

\* fs.rs:69-79: exists, is_directory and canonicalize ask the inner provider.
PassThrough(c) ==
    LET reader == call.readers[c]
    IN  /\ reader.pc = "pass"
        /\ call' = [call EXCEPT
              !.readers[c] = [reader EXCEPT !.pc = "done",
                                            !.ok = call.disk[reader.path] # None]]
        /\ UNCHANGED traversal

\* A file is rewritten below the provider.
Rewrite(path) ==
    /\ call.disk[path] = Some("v1")
    /\ call' = [call EXCEPT !.disk[path] = Some("v2")]
    /\ UNCHANGED traversal

NextCache ==
    \/ \E c \in Readers : CallProvider(c)
    \/ \E c \in Readers : LockCache(c)
    \/ \E c \in Readers : InnerRead(c)
    \/ \E c \in Readers : PassThrough(c)
    \/ \E path \in CachedPaths : Rewrite(path)

SpecCache == InitCache /\ [][NextCache]_vars

\* C35: a read_file of a cached path returns the kept content without a read
\* of the inner provider, also with several callers at once; the inner
\* provider reads only a path that is not cached; the content kept for a path
\* does not change while it is cached; a failed read leaves the cache as it
\* is; exists, is_directory and canonicalize leave the cache as it is.
C35_MemoizesSuccessfulReads ==
    [][\A c \in Readers :
          LET before == call.readers[c]
              after == call'.readers[c]
              kept == get(call.cache, before.path)
          IN  /\ (before.pc = "lock" /\ after.pc # "lock" /\ kept # None)
                     => /\ after.pc = "done"
                        /\ after.ok
                        /\ after.content = kept
              /\ (before.pc = "inner" /\ after.pc = "done") => kept = None
              /\ (before.pc = "inner" /\ after.pc = "done" /\ ~after.ok)
                     => call'.cache = call.cache
              /\ before.pc = "pass" /\ after.pc = "done"
                     => call'.cache = call.cache
              /\ \A path \in CachedPaths :
                     (get(call.cache, path) # None /\ get(call'.cache, path) # None)
                         => get(call'.cache, path) = get(call.cache, path)]_vars

\* A caller was served from the cache after the file was rewritten, while the
\* other caller holds the lock over a read of the inner provider.
C35_Witness ==
    /\ call.fn = "CachedFileSystem"
    /\ \E c, d \in Readers :
          /\ call.readers[c].hit
          /\ call.readers[c].content = Some("v1")
          /\ call.disk[call.readers[c].path] = Some("v2")
          /\ get(call.cache, call.readers[c].path) = Some("v1")
          /\ call.readers[d].pc = "inner"
          /\ call.lock = d

----------------------------------------------------------------------------
\* Two traversals of the same filesystem with the same settings, one after
\* the other, each with a traverser of its own (DependencyTraverser::new,
\* traverse): the second starts when the first has returned its graph.

\* c is imported by the entry and by b, d closes a cycle through c.
Shortcut == Tree("a", "a" :> <<Local("b"), Local("c")>> @@ "b" :> <<Local("c")>>
                   @@ "c" :> <<Local("d")>> @@ "d" :> <<Local("a")>>)

\* The content of the graph: the source keys, the edge list of each source,
\* the asset set and the cycle set.
Content ==
    [keys |-> {f \in Files : adj_list[f] # << >>},
     edges |-> adj_list,
     assets |-> assets,
     cycles |-> circular_deps]

InitRepeat ==
    /\ fs \in {Shortcut, BadConfig}
    /\ cfg \in [max_depth : 0..MaxDepth, max_files : 1..MaxFiles,
                permits : 1..MaxPermits,
                max_consecutive_errors : 1..MaxConsecutive,
                max_total_errors : 1..MaxTotal]
    /\ Constructed
    /\ call = [fn |-> "traverse", first |-> None]

\* traverse returned Ok(graph); a new traverser with the same settings
\* traverses the same entry.
TraverseAgain ==
    /\ result = "Ok"
    /\ call.first = None
    /\ call' = [call EXCEPT !.first = Some(Content)]
    /\ visited' = {}
    /\ in_progress' = {}
    /\ file_count' = 0
    /\ semaphore' = cfg.permits
    /\ error_count' = 0
    /\ consecutive_errors' = 0
    /\ adj_list' = [f \in Files |-> << >>]
    /\ circular_deps' = {}
    /\ assets' = {}
    /\ expl' = <<NewTask(fs.entry, 0, 0)>>
    /\ result' = "running"
    /\ hist' = [explored |-> [f \in Files |-> 0], read |-> [f \in Files |-> 0],
                again |-> {}, met |-> {}, errors |-> {}, guards |-> {},
                at |-> [f \in Files |-> {}]]
    /\ UNCHANGED <<fs, cfg>>

NextRepeat ==
    \/ Next
    \/ TraverseAgain

SpecRepeat == InitRepeat /\ [][NextRepeat]_vars

\* C38: for a given filesystem and given settings every traversal that
\* returns a graph returns the same content: the same source keys, the same
\* edge list for each source, the same asset set and the same cycle set,
\* whatever the order in which the child explorations ran.
C38_ScheduleIndependent ==
    (call.first # None /\ result = "Ok") => Content = call.first[1]

====
